---- MODULE Spec2Model ----
(***************************************************************************)
(* RaceCraft pacing and effort-allocation engine (src/app.py).             *)
(*                                                                         *)
(* The engine computes with Python floats.  The model computes in fixed    *)
(* point over the integers:                                                *)
(*   times      in milli-minutes            (TimeScale per minute)         *)
(*   paces      in milli-minutes per km     (TimeScale per min/km)         *)
(*   distances  in whole kilometres                                        *)
(*   elevations in whole metres                                            *)
(*   factors    in 1/FScale                 (1.0 = FScale)                 *)
(*   gradients  in 1/GradScale              (0.08 = 8000)                  *)
(*   effort     in 1/EffortScale km-effort  (dist + gain/100 + loss/200)   *)
(* Every product/quotient is MulDiv(a, b, c) = floor(a*b/c), evaluated     *)
(* without leaving 32 bits.                                                *)
(***************************************************************************)
EXTENDS Integers, Sequences, FiniteSets, TLC

VARIABLES
    pin,        \* SpecPace: arguments of adjust_pace_for_elevation
    pout,       \* SpecPace: its return value (NoResult before the call)
    pprev,      \* SpecPace: the return value for the previous, smaller gain
    tin,        \* SpecTerrain: arguments of calculate_terrain_efficiency_factor
    tfout,      \* SpecTerrain: its return value for each terrain type
    req,        \* Spec: the request body of /api/calculate
    pc,         \* Spec: position inside calculate()
    segments_basic_data,    \* Spec: the segments built from the profile
    natural_results,    \* Spec: calculate_natural_pacing's return value
    reverse_results,    \* Spec: allocate_effort_to_target's return value
    segments,           \* Spec: the output segments built by calculate()
    search,             \* Spec: locals of calculate_effort_thresholds
    effort_thresholds,  \* Spec: calculate_effort_thresholds' return value
    response,           \* Spec: the JSON response of calculate()
    calls,      \* SpecEngine, SpecConcurrent: the locals of each engine invocation
    geo,        \* SpecGeometry: the locals of the segment construction
    user_plans, \* SpecPlans: the rows of the user_plans table
    saved_plans,    \* SpecPlans: the plan files of SAVED_PLANS_FOLDER
    dropbag,    \* SpecDropbag: arguments and result of calculate_dropbag_contents
    probe,      \* SpecProbe: the targets probed and the fractions returned
    loop        \* SpecBasePace: the locals of calculate()'s segment loop

vars == <<pin, pout, pprev, tin, tfout, req, pc, segments_basic_data, natural_results,
          reverse_results, segments, search, effort_thresholds, response, calls,
          geo, user_plans, saved_plans, dropbag, probe, loop>>

paceVars == <<pin, pout, pprev, tin, tfout>>
calcVars == <<req, pc, segments_basic_data, natural_results, reverse_results,
              segments, search, effort_thresholds, response>>
engineVars == <<calls>>
geoVars == <<geo>>
planVars == <<user_plans, saved_plans>>
dropbagVars == <<dropbag>>
probeVars == <<probe>>
loopVars == <<loop>>
sideVars == <<geoVars, planVars, dropbagVars, probeVars, loopVars>>

NoResult == [none |-> TRUE]

-----------------------------------------------------------------------------
(* Fixed-point scales *)
TimeScale == 10^3
FScale == 10^4
GradScale == 10^5
EffortScale == 2 * 10^2

Min2(a, b) == IF a < b THEN a ELSE b
Max2(a, b) == IF a > b THEN a ELSE b
Abs(a) == IF a < 0 THEN -a ELSE a

(* <<q, r>> with a*b = q*c + r, 0 <= r < c, for 0 <= a < c <= 2^29: long
   multiplication over the digits of b in a radix chosen so that no
   intermediate exceeds 2^31.  MulDivDigit adds the lowest digit of b to the
   result h for the higher digits. *)
MulDivDigit(a, b, c, radix, h) ==
    <<radix * h[1] + ((radix * h[2] + a * (b % radix)) \div c),
      (radix * h[2] + a * (b % radix)) % c>>

RECURSIVE MulDivQR(_, _, _)
MulDivQR(a, b, c) ==
    IF b < (2^30) \div c THEN <<(a * b) \div c, (a * b) % c>>
    ELSE MulDivDigit(a, b, c, (2^30) \div c, MulDivQR(a, b \div ((2^30) \div c), c))

(* floor(a*b/c) for a, b >= 0 and c > 0 *)
MulDiv(a, b, c) == (a \div c) * b + MulDivQR(a % c, b, c)[1]

(* a*b/c rounded toward zero, a of either sign *)
SMulDiv(a, b, c) == IF a < 0 THEN -MulDiv(-a, b, c) ELSE MulDiv(a, b, c)

(* a/b rounded toward zero, a and b of either sign, b # 0 *)
SDiv(a, b) ==
    IF (a < 0) = (b < 0) THEN Abs(a) \div Abs(b) ELSE -(Abs(a) \div Abs(b))

\* the list a comprehension or an append loop builds, every element computed once
ListOf(f) == f \o <<>>

RECURSIVE SumSeq(_)
SumSeq(s) == IF s = <<>> THEN 0 ELSE Head(s) + SumSeq(Tail(s))

-----------------------------------------------------------------------------
(* Tier tables *)
ClimbingAbilities == {"conservative", "moderate", "strong", "very_strong", "elite"}
FitnessLevels == {"untrained", "recreational", "trained", "elite"}
TerrainTypes == {"road", "smooth_trail", "dirt_road", "rocky_runnable",
                 "technical", "very_technical", "scrambling"}

\* vertical speed in m/h
CLIMBING_ABILITY_PARAMS ==
    [conservative |-> 600, moderate |-> 800, strong |-> 1000,
     very_strong |-> 1250, elite |-> 1500]

\* fop in EffortScale, alpha in FScale, beta in hundredths
FITNESS_LEVEL_PARAMS ==
    [untrained    |-> [fop |-> 5000,  alpha |-> 1200, beta |-> 100],
     recreational |-> [fop |-> 7500,  alpha |-> 1000, beta |-> 100],
     trained      |-> [fop |-> 11000, alpha |-> 800,  beta |-> 95],
     elite        |-> [fop |-> 15000, alpha |-> 600,  beta |-> 90]]

\* the table with the technical and scrambling entries exchanged
TERRAIN_FACTORS_Swapped ==
    [road |-> 9500, smooth_trail |-> 10000, dirt_road |-> 10500,
     rocky_runnable |-> 11500, technical |-> 20000, very_technical |-> 16500,
     scrambling |-> 13250]

TERRAIN_FACTORS ==
    [road |-> 9500, smooth_trail |-> 10000, dirt_road |-> 10500,
     rocky_runnable |-> 11500, technical |-> 13250, very_technical |-> 16500,
     scrambling |-> 20000]

TERRAIN_GRADIENT_GAMMA == 12500
TERRAIN_CLIMB_FACTOR == 7000
TERRAIN_DESCENT_FACTOR == 10000

\* gradient = (gain - loss) / (distance_km * 1000), 0 when distance is 0
Gradient(elev_gain, elev_loss, distance_km) ==
    IF distance_km > 0
    THEN SMulDiv(elev_gain - elev_loss, GradScale \div 1000, distance_km)
    ELSE 0

-----------------------------------------------------------------------------
(* SegmentPaceModel *)

\* calculate_terrain_efficiency_factor: factor in FScale, >= FScale
calculate_terrain_efficiency_factor(terrain_type, gradient, skill_level, is_descent) ==
    LET base_terrain_factor == TERRAIN_FACTORS[terrain_type]
        gradient_scaling == FScale + MulDiv(TERRAIN_GRADIENT_GAMMA, Abs(gradient), GradScale)
        scaled_terrain_factor == MulDiv(base_terrain_factor, gradient_scaling, FScale)
        direction_adjusted_factor ==
            IF is_descent
            THEN FScale + SMulDiv(scaled_terrain_factor - FScale, TERRAIN_DESCENT_FACTOR, FScale)
            ELSE FScale + SMulDiv(scaled_terrain_factor - FScale, TERRAIN_CLIMB_FACTOR, FScale)
        skill_adjusted_factor ==
            FScale + SMulDiv(direction_adjusted_factor - FScale, FScale - skill_level, FScale)
    IN  Max2(FScale, skill_adjusted_factor)

\* calculate_vertical_speed: efficiency of the base vertical speed, in FScale
VerticalEfficiency(gradient, skill_level) ==
    LET gp == Abs(gradient)     \* gradient_pct = gp / 1000
        efficiency ==
            IF gp < 3000 THEN 9000
            ELSE IF gp < 6000 THEN 9000 + MulDiv(gp - 3000, 500, 3000)
            ELSE IF gp <= 12000 THEN 9500 + MulDiv(gp - 6000, 500, 6000)
            ELSE IF gp <= 18000 THEN 10000 - MulDiv(gp - 12000, 1500, 6000)
            ELSE IF gp <= 25000 THEN 8500 - MulDiv(gp - 18000, 1500, 7000)
            ELSE 7000
        skill_bonus ==
            MulDiv(MulDiv(skill_level, 500, FScale), Min2(13000, gp - 12000), 13000)
    IN  IF gp > 12000 THEN Min2(FScale, efficiency + skill_bonus) ELSE efficiency

\* calculate_vertical_speed: m/h in FScale-ths
calculate_vertical_speed(base_vertical_speed, gradient, skill_level) ==
    base_vertical_speed * VerticalEfficiency(gradient, skill_level)

terrain_downhill_caps_base ==
    [road |-> 10000, smooth_trail |-> 9500, dirt_road |-> 9000,
     rocky_runnable |-> 8000, technical |-> 7000, very_technical |-> 6000,
     scrambling |-> 5000]

\* calculate_downhill_multiplier: speed multiplier in FScale
calculate_downhill_multiplier(gradient, terrain_type, skill_level) ==
    IF gradient >= 0 THEN FScale
    ELSE LET gp == Abs(gradient)
             base_multiplier ==
                 IF gp <= 5000 THEN 10500
                 ELSE IF gp <= 10000 THEN 11500
                 ELSE IF gp <= 15000 THEN 12000
                 ELSE 11000
             base_terrain_cap == terrain_downhill_caps_base[terrain_type]
             skill_bonus == MulDiv(MulDiv(skill_level, 3000, FScale),
                                   FScale - base_terrain_cap, FScale)
             terrain_cap == Min2(FScale, base_terrain_cap + skill_bonus)
         IN  FScale + MulDiv(base_multiplier - FScale, terrain_cap, FScale)

\* knots <<x, x^0.95, x^0.90>> in FScale of the power curve of the fatigue law
PowKnots ==
    << <<0, 0, 0>>, <<2500, 2679, 2872>>, <<5000, 5176, 5359>>,
       <<10000, 10000, 10000>>, <<20000, 19319, 18661>>,
       <<40000, 37321, 34822>>, <<80000, 72100, 64980>> >>

\* x ** beta (x in FScale, beta in hundredths): exact for beta = 1.0,
\* interpolated between the knots for 0.95 and 0.90
PowBeta(x, beta) ==
    IF beta = 100 THEN x
    ELSE LET col == IF beta = 95 THEN 2 ELSE 3
             xx == Min2(x, 80000)
             k == CHOOSE j \in 1..(Len(PowKnots) - 1) :
                      PowKnots[j][1] <= xx /\ xx <= PowKnots[j + 1][1]
             x0 == PowKnots[k][1]
             x1 == PowKnots[k + 1][1]
             y0 == PowKnots[k][col]
             y1 == PowKnots[k + 1][col]
         IN  y0 + MulDiv(xx - x0, y1 - y0, x1 - x0)

\* the fatigue multiplier of adjust_pace_for_elevation, in FScale
FatigueMultiplier(cumulative_effort, fatigue_enabled, fitness_level) ==
    LET params == FITNESS_LEVEL_PARAMS[fitness_level]
    IN  IF fatigue_enabled /\ cumulative_effort > params.fop
        THEN FScale + MulDiv(params.alpha,
                             PowBeta(MulDiv(cumulative_effort - params.fop, FScale, params.fop),
                                     params.beta),
                             FScale)
        ELSE FScale

MaxPaceFactor == 25     \* max_allowed_pace = base_pace * 2.5 (tenths)

\* the limit detected but the pace left as computed
ApplyMaxPaceUnclamped(final_pace, base_pace) ==
    <<final_pace, final_pace > MulDiv(base_pace, MaxPaceFactor, 10)>>

\* "Apply reasonable max pace limit": <<final_pace, pace_capped>>
ApplyMaxPace(final_pace, base_pace) ==
    LET max_allowed_pace == MulDiv(base_pace, MaxPaceFactor, 10)
        pace_capped == final_pace > max_allowed_pace
    IN  <<IF pace_capped THEN max_allowed_pace ELSE final_pace, pace_capped>>

\* base_segment_time = horizontal_time + climb_time - descent_time_savings
BaseSegmentTime(horizontal_time, elevation_gain, elevation_loss, gradient, base_vertical_speed, terrain_type, skill_level) ==
    LET climb_time ==
            IF elevation_gain > 0
            THEN MulDiv(elevation_gain * 60 * TimeScale, FScale,
                        calculate_vertical_speed(base_vertical_speed, gradient, skill_level))
            ELSE 0
        descent_time_savings ==
            IF elevation_loss > 0 /\ elevation_loss > elevation_gain
            THEN horizontal_time
                 - SMulDiv(horizontal_time, FScale,
                           calculate_downhill_multiplier(gradient, terrain_type, skill_level))
            ELSE 0
    IN  horizontal_time + climb_time - descent_time_savings

\* final_pace = base_segment_time * terrain_factor * fatigue_multiplier
\*              * skill_efficiency_bonus / distance_km
FinalPace(base_segment_time, terrain_factor, fatigue_multiplier, skill_efficiency_bonus, distance_km) ==
    SDiv(SMulDiv(SMulDiv(SMulDiv(base_segment_time, terrain_factor, FScale),
                         fatigue_multiplier, FScale),
                 skill_efficiency_bonus, FScale), distance_km)

\* the returned tuple (final_pace, pace_with_climbing, fatigue_seconds,
\* terrain_factor, pace_capped) and the local final_pace before the cap
PaceTuple(capped, pace_with_climbing, fatigue_multiplier, terrain_factor, final_pace) ==
    [final_pace |-> capped[1],
     pace_with_climbing |-> pace_with_climbing,
     fatigue_seconds |->
         (MulDiv(pace_with_climbing, fatigue_multiplier, FScale) - pace_with_climbing) * 60,
     terrain_factor |-> terrain_factor,
     pace_capped |-> capped[2],
     uncapped_pace |-> final_pace]

\* the max pace limit applied to the combined pace
LimitPace(base_pace, final_pace, pace_with_climbing, fatigue_multiplier, terrain_factor) ==
    PaceTuple(ApplyMaxPace(final_pace, base_pace), pace_with_climbing,
              fatigue_multiplier, terrain_factor, final_pace)

\* "Combine all factors"
CombineFactors(base_pace, distance_km, base_segment_time, terrain_factor, fatigue_multiplier, skill_efficiency_bonus) ==
    LimitPace(base_pace,
              FinalPace(base_segment_time, terrain_factor, fatigue_multiplier,
                        skill_efficiency_bonus, distance_km),
              IF distance_km > 0 THEN base_segment_time \div distance_km ELSE base_pace,
              fatigue_multiplier, terrain_factor)

\* the body of adjust_pace_for_elevation once the gradient is known
PaceForGradient(base_pace, elevation_gain, elevation_loss, distance_km, cumulative_effort, climbing_ability, fatigue_enabled, fitness_level, terrain_type, skill_level, gradient) ==
    CombineFactors(base_pace, distance_km,
        BaseSegmentTime(distance_km * base_pace, elevation_gain, elevation_loss, gradient,
                        CLIMBING_ABILITY_PARAMS[climbing_ability], terrain_type, skill_level),
        calculate_terrain_efficiency_factor(terrain_type, gradient, skill_level,
                                            elevation_loss > elevation_gain),
        FatigueMultiplier(cumulative_effort, fatigue_enabled, fitness_level),
        FScale - MulDiv(skill_level, 300, FScale))

\* the early return for distance_km = 0 taken after the fatigue multiplier
\* has been applied to the base pace
adjust_pace_fatigue_first(base_pace, elevation_gain, elevation_loss, distance_km, cumulative_effort, climbing_ability, fatigue_enabled, fitness_level, terrain_type, skill_level) ==
    IF distance_km = 0
    THEN [final_pace |-> MulDiv(base_pace,
                                FatigueMultiplier(cumulative_effort, fatigue_enabled,
                                                  fitness_level), FScale),
          pace_with_climbing |-> base_pace,
          fatigue_seconds |-> 0, terrain_factor |-> FScale,
          pace_capped |-> FALSE, uncapped_pace |-> base_pace]
    ELSE PaceForGradient(base_pace, elevation_gain, elevation_loss, distance_km,
                         cumulative_effort, climbing_ability, fatigue_enabled,
                         fitness_level, terrain_type, skill_level,
                         Gradient(elevation_gain, elevation_loss, distance_km))

\* adjust_pace_for_elevation
adjust_pace_for_elevation(base_pace, elevation_gain, elevation_loss, distance_km, cumulative_effort, climbing_ability, fatigue_enabled, fitness_level, terrain_type, skill_level) ==
    IF distance_km = 0
    THEN [final_pace |-> base_pace, pace_with_climbing |-> base_pace,
          fatigue_seconds |-> 0, terrain_factor |-> FScale,
          pace_capped |-> FALSE, uncapped_pace |-> base_pace]
    ELSE PaceForGradient(base_pace, elevation_gain, elevation_loss, distance_km,
                         cumulative_effort, climbing_ability, fatigue_enabled,
                         fitness_level, terrain_type, skill_level,
                         Gradient(elevation_gain, elevation_loss, distance_km))

-----------------------------------------------------------------------------
(* GeometryReducer *)

\* the scan keeping the last index of the smallest key instead of the first
RECURSIVE MinByKeyLast(_, _, _, _)
MinByKeyLast(distances, cp_dist, i, best) ==
    IF i > Len(distances) THEN best
    ELSE MinByKeyLast(distances, cp_dist, i + 1,
             IF Abs(distances[i] - cp_dist) <= Abs(distances[best] - cp_dist)
             THEN i ELSE best)

\* min(range(len(distances)), key=lambda i: abs(distances[i] - cp_dist)) from
\* index i on: the scan replaces the best index only by one of smaller key
RECURSIVE MinByKey(_, _, _, _)
MinByKey(distances, cp_dist, i, best) ==
    IF i > Len(distances) THEN best
    ELSE MinByKey(distances, cp_dist, i + 1,
             IF Abs(distances[i] - cp_dist) < Abs(distances[best] - cp_dist)
             THEN i ELSE best)

\* closest_idx (1-based here)
ClosestIndex(distances, cp_dist) == MinByKey(distances, cp_dist, 2, 1)

\* distances of find_checkpoint_indices: [0.0] and the running sum of the
\* leg lengths between consecutive trackpoints
RECURSIVE CumulativeDistances(_)
CumulativeDistances(legs) ==
    IF legs = <<>> THEN <<0>>
    ELSE Append(CumulativeDistances(SubSeq(legs, 1, Len(legs) - 1)),
                SumSeq(legs))

\* find_checkpoint_indices: [0] + closest indices + [len(trackpoints) - 1]
find_checkpoint_indices(legs, checkpoint_distances) ==
    <<1>>
    \o [k \in 1..Len(checkpoint_distances) |->
            ClosestIndex(CumulativeDistances(legs), checkpoint_distances[k])]
    \o <<Len(legs) + 1>>

\* find_checkpoint_indices_from_profile: [0] + closest indices + [last]
find_checkpoint_indices_from_profile(elevation_profile, checkpoint_distances) ==
    LET distances == [i \in 1..Len(elevation_profile) |-> elevation_profile[i].distance]
    IN  <<1>>
        \o [k \in 1..Len(checkpoint_distances) |->
                ClosestIndex(distances, checkpoint_distances[k])]
        \o <<Len(elevation_profile)>>

\* the net change between the two end points taken as the gain or the loss
calculate_net_elevation_change(trackpoints, start_idx, end_idx) ==
    IF start_idx >= end_idx THEN <<0, 0>>
    ELSE <<Max2(trackpoints[end_idx].elevation - trackpoints[start_idx].elevation, 0),
           Max2(trackpoints[start_idx].elevation - trackpoints[end_idx].elevation, 0)>>

\* calculate_elevation_change: <<gain, loss>> over range(start_idx, end_idx)
RECURSIVE calculate_elevation_change(_, _, _)
calculate_elevation_change(trackpoints, start_idx, end_idx) ==
    IF start_idx >= end_idx THEN <<0, 0>>
    ELSE LET rest == calculate_elevation_change(trackpoints, start_idx + 1, end_idx)
             elev_change == trackpoints[start_idx + 1].elevation
                            - trackpoints[start_idx].elevation
         IN  IF elev_change > 0
             THEN <<rest[1] + elev_change, rest[2]>>
             ELSE <<rest[1], rest[2] + Abs(elev_change)>>

\* segments_basic_data of calculate()
SegmentsBasicData(elevation_profile, checkpoint_distances, segment_terrain_types) ==
    LET checkpoint_indices ==
            find_checkpoint_indices_from_profile(elevation_profile, checkpoint_distances)
    IN  [i \in 1..(Len(checkpoint_indices) - 1) |->
            LET start_idx == checkpoint_indices[i]
                end_idx == checkpoint_indices[i + 1]
                change == calculate_elevation_change(elevation_profile, start_idx, end_idx)
            IN  [distance |-> elevation_profile[end_idx].distance
                              - elevation_profile[start_idx].distance,
                 elev_gain |-> change[1],
                 elev_loss |-> change[2],
                 terrain_type |-> IF i <= Len(segment_terrain_types)
                                  THEN segment_terrain_types[i]
                                  ELSE "smooth_trail"]]

-----------------------------------------------------------------------------
(* NaturalPacingSimulator *)

\* segment_effort = distance_km + elev_gain / 100 + elev_loss / 200
SegmentEffort(seg) ==
    EffortScale * seg.distance + (EffortScale \div 100) * seg.elev_gain
    + (EffortScale \div 200) * seg.elev_loss

\* the entry appended to natural_results for one segment
NaturalEntry(final_pace, distance_km) ==
    [natural_time |-> final_pace * distance_km, natural_pace |-> final_pace]

\* the for-loop of calculate_natural_pacing from segment i on, entered with
\* the effort accumulated over the segments before i
RECURSIVE NaturalLoop(_, _, _, _)
NaturalLoop(segments_data, i, cumulative_effort, athlete) ==
    IF i > Len(segments_data) THEN <<>>
    ELSE LET seg_data == segments_data[i]
         IN  <<NaturalEntry(adjust_pace_for_elevation(
                                athlete.base_pace, seg_data.elev_gain, seg_data.elev_loss,
                                seg_data.distance, cumulative_effort,
                                athlete.climbing_ability, athlete.fatigue_enabled,
                                athlete.fitness_level, seg_data.terrain_type,
                                athlete.skill_level).final_pace,
                            seg_data.distance)>>
             \o NaturalLoop(segments_data, i + 1,
                            cumulative_effort + SegmentEffort(seg_data), athlete)

calculate_natural_pacing(segments_data, athlete) ==
    NaturalLoop(segments_data, 1, 0, athlete)

RECURSIVE SumNaturalTime(_)
SumNaturalTime(results) ==
    IF results = <<>> THEN 0
    ELSE Head(results).natural_time + SumNaturalTime(Tail(results))

-----------------------------------------------------------------------------
(* EffortAllocator *)

climbing_cost_map ==
    [elite |-> 7500, very_strong |-> 8500, strong |-> 9500, moderate |-> 10000,
     conservative |-> 12000]

\* the bounds of get_terrain_effort_bounds by gradient category
EffortBoundsAt(gradient, climbing_ability, skill_level) ==
    IF gradient > 8000
    THEN IF climbing_ability = "elite"
         THEN <<7000, 11500, climbing_cost_map[climbing_ability]>>
         ELSE IF climbing_ability = "very_strong"
         THEN <<7500, 12000, climbing_cost_map[climbing_ability]>>
         ELSE IF climbing_ability = "strong"
         THEN <<8000, 12500, climbing_cost_map[climbing_ability]>>
         ELSE IF climbing_ability = "moderate"
         THEN <<8500, 13000, climbing_cost_map[climbing_ability]>>
         ELSE <<9000, 13500, climbing_cost_map[climbing_ability]>>
    ELSE IF gradient < -5000
    THEN LET skill_cost_factor == FScale + MulDiv(FScale - skill_level, 8000, FScale)
         IN  IF skill_level >= 8000 THEN <<8000, 12000, skill_cost_factor>>
             ELSE IF skill_level >= 6000 THEN <<8500, 12000, skill_cost_factor>>
             ELSE IF skill_level >= 4000 THEN <<9000, 12500, skill_cost_factor>>
             ELSE <<9500, 13000, skill_cost_factor>>
    ELSE <<8000, 12500, FScale>>

\* get_terrain_effort_bounds: <<min_mult, max_mult, effort_cost>> in FScale
get_terrain_effort_bounds(elev_gain, elev_loss, distance_km, climbing_ability, skill_level) ==
    EffortBoundsAt(Gradient(elev_gain, elev_loss, distance_km), climbing_ability,
                   skill_level)

fitness_budget_map ==
    [untrained |-> 1500, recreational |-> 2500, trained |-> 3500, elite |-> 5000]

fitness_fatigue_map ==
    [untrained |-> 15000, recreational |-> 13000, trained |-> 11500, elite |-> 10500]

NearMatchTolerance == 500   \* abs(delta_t) < 0.5 minutes

\* the tolerance taken as 0.5 seconds instead of 0.5 minutes
NearMatchSeconds(delta_t) == Abs(delta_t) < NearMatchTolerance \div 60

\* "If target matches natural, no adjustment needed": within 30 seconds
NearMatch(delta_t) == Abs(delta_t) < NearMatchTolerance
LabelThresholdInv == 10     \* adjustment / natural_time >= 0.10

\* segment_adjustment / natural_time >= 0.10 as the floats decide it.  The
\* adjustment is at most the capacity natural_time * (1.0 - min_mult), and
\* for min_mult = 0.9 Python's 1.0 - 0.9 is 0.09999999999999998: the ratio of
\* a segment whose capacity is a tenth of its natural time stays below 0.10
\* even when the whole capacity is used.
ReachesThreshold(segment_adjustment, natural_time, max_adjustment) ==
    /\ segment_adjustment * LabelThresholdInv >= natural_time
    /\ max_adjustment * LabelThresholdInv > natural_time

\* cumulative effort over the segments before i
RECURSIVE EffortBefore(_, _)
EffortBefore(segments_data, i) ==
    IF i <= 1 THEN 0
    ELSE EffortBefore(segments_data, i - 1) + SegmentEffort(segments_data[i - 1])

\* total_effort_cost of segment i: base cost times the fatigue ramp
TotalEffortCost(segments_data, i, athlete) ==
    LET seg_data == segments_data[i]
        bounds == get_terrain_effort_bounds(seg_data.elev_gain, seg_data.elev_loss,
                      seg_data.distance, athlete.climbing_ability, athlete.skill_level)
        fatigue_factor == fitness_fatigue_map[athlete.fitness_level]
        fatigue_multiplier ==
            IF athlete.fatigue_enabled
            THEN Min2(FScale + MulDiv(EffortBefore(segments_data, i),
                                      fatigue_factor - FScale, EffortScale * 100),
                      fatigue_factor)
            ELSE FScale
    IN  MulDiv(bounds[3], fatigue_multiplier, FScale)

\* max_adjustment of segment i: max_time_saved (faster) or max_time_added
MaxAdjustment(segments_data, natural, i, athlete, faster) ==
    LET seg_data == segments_data[i]
        bounds == get_terrain_effort_bounds(seg_data.elev_gain, seg_data.elev_loss,
                      seg_data.distance, athlete.climbing_ability, athlete.skill_level)
    IN  IF faster
        THEN MulDiv(natural[i].natural_time, FScale - bounds[1], FScale)
        ELSE MulDiv(natural[i].natural_time, bounds[2] - FScale, FScale)

\* the natural pacing returned unmodified, every segment 'steady'
NaturalUnmodified(natural) ==
    ListOf([i \in 1..Len(natural) |->
               [segment_time |-> natural[i].natural_time,
                required_pace |-> natural[i].natural_pace,
                effort_level |-> "steady"]])

\* abs_delta_t with the cap to the budget left out
ClampedDeltaUncapped(natural_total_time, delta_t, fitness_level) == Abs(delta_t)

\* abs_delta_t after the cap to the global effort budget
ClampedDelta(natural_total_time, delta_t, fitness_level) ==
    LET max_total_deviation ==
            MulDiv(natural_total_time, fitness_budget_map[fitness_level], FScale)
    IN  IF Abs(delta_t) > max_total_deviation THEN max_total_deviation ELSE Abs(delta_t)

\* max_adjustment of every segment
MaxAdjustments(segments_data, natural, athlete, faster) ==
    ListOf([i \in 1..Len(segments_data) |->
               MaxAdjustment(segments_data, natural, i, athlete, faster)])

\* total_effort_cost of every segment
EffortCosts(segments_data, athlete) ==
    ListOf([i \in 1..Len(segments_data) |-> TotalEffortCost(segments_data, i, athlete)])

\* the capacity multiplied by the effort cost instead of divided by it
WeightedByCost(max_adjustment, effort_cost) ==
    ListOf([i \in 1..Len(max_adjustment) |->
               MulDiv(max_adjustment[i], effort_cost[i], FScale)])

\* cost_weighted_capacity = max_adjustment / effort_cost of every segment
WeightedCapacities(max_adjustment, effort_cost) ==
    ListOf([i \in 1..Len(max_adjustment) |->
               MulDiv(max_adjustment[i], FScale, effort_cost[i])])

\* segment_adjustment without the cap at the segment's max_adjustment
SegmentAdjustmentsUncapped(max_adjustment, weighted, abs_delta_t, total_cost_weighted_capacity) ==
    ListOf([i \in 1..Len(max_adjustment) |->
               IF total_cost_weighted_capacity > 0
               THEN MulDiv(weighted[i], abs_delta_t, total_cost_weighted_capacity)
               ELSE 0])

\* segment_adjustment: the share of abs_delta_t, capped at max_adjustment
SegmentAdjustments(max_adjustment, weighted, abs_delta_t, total_cost_weighted_capacity) ==
    ListOf([i \in 1..Len(max_adjustment) |->
               IF total_cost_weighted_capacity > 0
               THEN Min2(MulDiv(weighted[i], abs_delta_t, total_cost_weighted_capacity),
                         max_adjustment[i])
               ELSE 0])

\* the test of the total capacity left out
TotalCapacityNeverZero(max_adjustment) == FALSE

\* total_capacity == 0: "Zero adjustment capacity - using natural pacing"
TotalCapacityZero(max_adjustment) == SumSeq(max_adjustment) = 0

\* the result entry of one segment: adjusted time, required pace, label
AllocatedSegment(seg_data, natural_i, segment_adjustment, faster, max_adjustment) ==
    LET natural_time == natural_i.natural_time
        adjusted_time == IF faster
                         THEN natural_time - segment_adjustment
                         ELSE natural_time + segment_adjustment
        at_threshold == ReachesThreshold(segment_adjustment, natural_time,
                                         max_adjustment)
    IN  [segment_time |-> adjusted_time,
         required_pace |-> IF seg_data.distance > 0
                           THEN adjusted_time \div seg_data.distance
                           ELSE natural_i.natural_pace,
         effort_level |-> IF at_threshold
                          THEN (IF faster THEN "push" ELSE "protect")
                          ELSE "steady"]

\* "Distribute time adjustment across segments using cost-weighted allocation"
Distribute(segments_data, natural, segment_adjustment, faster, max_adjustment) ==
    ListOf([i \in 1..Len(segments_data) |->
               AllocatedSegment(segments_data[i], natural[i], segment_adjustment[i],
                                faster, max_adjustment[i])])

\* allocate_effort_to_target from the per-segment capacities on.  raised =
\* TRUE models the ZeroDivisionError of segment_adjustment / natural_time in
\* the labelling of a segment whose natural time is 0.
AllocateWeighted(segments_data, natural, athlete, natural_total_time, delta_t, max_adjustment, weighted) ==
    IF NearMatch(delta_t)
    THEN [raised |-> FALSE, results |-> NaturalUnmodified(natural)]
    ELSE IF TotalCapacityZero(max_adjustment)
    THEN [raised |-> FALSE, results |-> NaturalUnmodified(natural)]
    ELSE IF \E i \in 1..Len(natural) : natural[i].natural_time = 0
    THEN [raised |-> TRUE, results |-> <<>>]
    ELSE [raised |-> FALSE,
          results |-> Distribute(segments_data, natural,
                          SegmentAdjustments(max_adjustment, weighted,
                              ClampedDelta(natural_total_time, delta_t,
                                           athlete.fitness_level),
                              SumSeq(weighted)),
                          delta_t > 0, max_adjustment)]

\* allocate_effort_to_target from delta_t on
AllocateDelta(segments_data, natural, athlete, natural_total_time, delta_t, max_adjustment) ==
    AllocateWeighted(segments_data, natural, athlete, natural_total_time, delta_t,
        max_adjustment,
        WeightedCapacities(max_adjustment, EffortCosts(segments_data, athlete)))

\* allocate_effort_to_target
allocate_effort_to_target(target_time_minutes, segments_data, natural, athlete) ==
    IF natural = <<>> THEN [raised |-> FALSE, results |-> <<>>]
    ELSE AllocateDelta(segments_data, natural, athlete, SumNaturalTime(natural),
             SumNaturalTime(natural) - target_time_minutes,
             MaxAdjustments(segments_data, natural, athlete,
                            SumNaturalTime(natural) > target_time_minutes))

-----------------------------------------------------------------------------
(* ThresholdClassifier *)

SearchIters == 20       \* for _ in range(20)

RECURSIVE Pow2(_)
Pow2(k) == IF k = 0 THEN 1 ELSE 2 * Pow2(k - 1)

\* The search bounds low, high, mid are kept exactly, as numerators a of
\* natural_total_time * a / SearchDenom: 20 halvings of a range of width
\* natural/2 and the final midpoint stay integral.
SearchDenom == Pow2(SearchIters + 2)

\* natural_total_time * a / SearchDenom as <<whole milli-minutes, remainder>>
Dyadic(natural_total_time, a) ==
    <<MulDiv(natural_total_time, a, SearchDenom),
      MulDivQR(natural_total_time % SearchDenom, a, SearchDenom)[2]>>

\* x < y for exact times <<whole, remainder>>
TimeLess(x, y) == x[1] < y[1] \/ (x[1] = y[1] /\ x[2] < y[2])

\* cost-weighted capacity of the segments with positive cost and capacity
CountedWeights(capacity, total_cost) ==
    ListOf([i \in 1..Len(capacity) |->
               IF total_cost[i] > 0 /\ capacity[i] > 0
               THEN MulDiv(capacity[i], FScale, total_cost[i]) ELSE 0])

\* the segments whose adjustment stays under 10% of their natural time
AtThresholdBelow(natural, capacity, total_cost, weighted, abs_delta_t, total_weighted_capacity) ==
    {i \in 1..Len(natural) :
        /\ total_cost[i] > 0 /\ capacity[i] > 0
        /\ ~ReachesThreshold(Min2(MulDiv(weighted[i], abs_delta_t,
                                         total_weighted_capacity), capacity[i]),
                             natural[i].natural_time, capacity[i])}

\* the segments whose adjustment reaches 10% of their natural time
AtThreshold(natural, capacity, total_cost, weighted, abs_delta_t, total_weighted_capacity) ==
    {i \in 1..Len(natural) :
        /\ total_cost[i] > 0 /\ capacity[i] > 0
        /\ ReachesThreshold(Min2(MulDiv(weighted[i], abs_delta_t,
                                        total_weighted_capacity), capacity[i]),
                            natural[i].natural_time, capacity[i])}

\* the count of the simulation from the weighted capacities on
SimulateWeighted(natural, abs_delta_t, capacity, total_cost, weighted) ==
    IF SumSeq(weighted) = 0 THEN <<0, Len(natural)>>
    ELSE <<Cardinality(AtThreshold(natural, capacity, total_cost, weighted,
                                   abs_delta_t, SumSeq(weighted))),
           Len(natural)>>

\* the simulation from delta_t on
SimulateDelta(segments_data, natural, athlete, faster, natural_total_time, delta_t, capacity, total_cost) ==
    IF (faster /\ delta_t <= 0) \/ (~faster /\ delta_t >= 0)
    THEN <<0, Len(segments_data)>>
    ELSE SimulateWeighted(natural,
             ClampedDelta(natural_total_time, delta_t, athlete.fitness_level),
             capacity, total_cost, CountedWeights(capacity, total_cost))

\* simulate_push_segments (faster = TRUE) and simulate_protect_segments
\* (faster = FALSE): <<segments_at_threshold, total_segments>>
SimulateSegments(target_time_minutes, segments_data, natural, athlete, faster) ==
    SimulateDelta(segments_data, natural, athlete, faster, SumNaturalTime(natural),
        SumNaturalTime(natural) - target_time_minutes,
        MaxAdjustments(segments_data, natural, athlete, faster),
        EffortCosts(segments_data, athlete))

simulate_push_segments(target_time_minutes, segments_data, natural, athlete) ==
    SimulateSegments(target_time_minutes, segments_data, natural, athlete, TRUE)

simulate_protect_segments(target_time_minutes, segments_data, natural, athlete) ==
    SimulateSegments(target_time_minutes, segments_data, natural, athlete, FALSE)

\* abs(pct_at_threshold - 0.50) < 0.05
CloseToHalf(pct) == Abs(20 * pct[1] - 10 * pct[2]) < pct[2]
\* pct_at_threshold < 0.50
BelowHalf(pct) == 2 * pct[1] < pct[2]

-----------------------------------------------------------------------------
(* calculate(): POST /api/calculate *)

\* round(x, 2) of a value in minutes
Round2(x) == ((x + 5) \div 10) * 10

Athlete(r) ==
    [base_pace |-> r.z2_pace, climbing_ability |-> r.climbing_ability,
     fatigue_enabled |-> r.fatigue_enabled, fitness_level |-> r.fitness_level,
     skill_level |-> r.skill_level]

\* target_time_str is kept as the list of its colon-separated fields, each a
\* list of characters: None is <<>> and the empty string is one empty field
EmptyString == << <<>> >>

\* use_target_time = pacing_mode == 'target_time' and target_time_str
UseTargetTime(r) ==
    r.pacing_mode = "target_time" /\ r.target_time # <<>> /\ r.target_time # EmptyString

Digits == <<"0", "1", "2", "3", "4", "5", "6", "7", "8", "9">>

IsDigit(c) == \E d \in 1..Len(Digits) : Digits[d] = c

DigitValue(c) == (CHOOSE d \in 1..Len(Digits) : Digits[d] = c) - 1

\* int(field) raises ValueError unless the field is a decimal literal
IsIntLiteral(field) == field # <<>> /\ \A k \in 1..Len(field) : IsDigit(field[k])

\* int(field) of a decimal literal
RECURSIVE int(_)
int(field) ==
    IF field = <<>> THEN 0
    ELSE int(SubSeq(field, 1, Len(field) - 1)) * Len(Digits)
         + DigitValue(field[Len(field)])

NumCheckpoints(r) == Len(r.checkpoint_distances)

\* total_cp_time = avg_cp_time * num_checkpoints
TotalCpTime(r) == r.avg_cp_time * NumCheckpoints(r)

\* target_hours * 60 + target_minutes + target_seconds / 60.0
TargetTotalMinutes(parts) ==
    int(parts[1]) * 60 * TimeScale + int(parts[2]) * TimeScale
    + (int(parts[3]) * TimeScale) \div 60

\* the entry appended to segments for one segment of the loop
OutputSegment(r, seg_basic, reverse_i, forward, new_cumulative_effort, segment_time, new_cumulative_time) ==
    LET use_target_time == UseTargetTime(r)
        adjusted_pace == IF use_target_time THEN reverse_i.required_pace
                         ELSE forward.final_pace
        effort_level == IF use_target_time THEN reverse_i.effort_level ELSE "steady"
        pace_capped == IF use_target_time THEN FALSE ELSE forward.pace_capped
    IN  [distance |-> seg_basic.distance,
         elev_gain |-> seg_basic.elev_gain,
         elev_loss |-> seg_basic.elev_loss,
         cumulative_effort |-> new_cumulative_effort,
         elev_pace |-> Round2(forward.pace_with_climbing),
         pace |-> Round2(adjusted_pace),
         pace_capped |-> pace_capped,
         pace_aggressive |-> use_target_time /\ effort_level = "push",
         effort_level |-> effort_level,
         fatigue_seconds |-> IF use_target_time THEN 0 ELSE forward.fatigue_seconds,
         terrain_type |-> seg_basic.terrain_type,
         terrain_factor |-> forward.terrain_factor,
         segment_time |-> Round2(segment_time),
         cumulative_time |-> Round2(new_cumulative_time)]

\* the for-loop over segments_basic_data building the output segments, from
\* segment i on: SegmentLoop computes the forward pace of segment i,
\* SegmentStep its segment time, SegmentAppend the entry and the rest
RECURSIVE SegmentLoop(_, _, _, _, _, _)
RECURSIVE SegmentStep(_, _, _, _, _, _, _)
RECURSIVE SegmentAppend(_, _, _, _, _, _, _, _)
SegmentAppend(r, basic, reverse, i, cumulative_time, cumulative_effort, forward, segment_time) ==
    LET reverse_i == IF UseTargetTime(r) THEN reverse[i] ELSE NoResult
        new_cumulative_time ==
            cumulative_time + (IF i > 1 THEN r.avg_cp_time ELSE 0) + segment_time
        new_cumulative_effort == cumulative_effort + SegmentEffort(basic[i])
    IN  <<OutputSegment(r, basic[i], reverse_i, forward, new_cumulative_effort,
                        segment_time, new_cumulative_time)>>
        \o SegmentLoop(r, basic, reverse, i + 1, new_cumulative_time,
                       new_cumulative_effort)

SegmentStep(r, basic, reverse, i, cumulative_time, cumulative_effort, forward) ==
    SegmentAppend(r, basic, reverse, i, cumulative_time, cumulative_effort, forward,
                  IF UseTargetTime(r) THEN reverse[i].segment_time
                  ELSE basic[i].distance * forward.final_pace)

SegmentLoop(r, basic, reverse, i, cumulative_time, cumulative_effort) ==
    IF i > Len(basic) THEN <<>>
    ELSE SegmentStep(r, basic, reverse, i, cumulative_time, cumulative_effort,
             adjust_pace_for_elevation(
                 r.z2_pace, basic[i].elev_gain, basic[i].elev_loss,
                 basic[i].distance, cumulative_effort, r.climbing_ability,
                 r.fatigue_enabled, r.fitness_level, basic[i].terrain_type,
                 r.skill_level))

ErrorResponse(reason) == [status |-> 400, error |-> reason]

\* segments_basic_data built from the elevation profile and the checkpoints
BuildSegments ==
    /\ pc = "segments"
    /\ segments_basic_data' = SegmentsBasicData(req.elevation_profile,
                                  req.checkpoint_distances, req.segment_terrain_types)
    /\ pc' = "target"
    /\ UNCHANGED <<req, natural_results, reverse_results, segments, search,
                   effort_thresholds, response, paceVars, engineVars, sideVars>>

\* target_total_minutes - total_cp_time
TargetMovingMinutes(r) == TargetTotalMinutes(r.target_time) - TotalCpTime(r)

\* the results of the allocation kept by calculate(), or the exception
\* reported as a parse error
StoreAllocation(natural, allocated) ==
    /\ natural_results' = natural
    /\ reverse_results' = allocated
    /\ IF allocated.raised
       THEN /\ response' = ErrorResponse(
                   "Error parsing target time: float division by zero")
            /\ pc' = "done"
       ELSE /\ pc' = "loop"
            /\ UNCHANGED response

\* natural_results are allocated to the target moving time
AllocateNatural(target_moving_time, natural) ==
    StoreAllocation(natural,
        allocate_effort_to_target(target_moving_time, segments_basic_data, natural,
                                  Athlete(req)))

\* "Handle Target Time Mode": parse the target, natural pacing, allocation
HandleTargetTime ==
    /\ pc = "target"
    /\ IF ~UseTargetTime(req)
       THEN /\ pc' = "loop"
            /\ UNCHANGED <<natural_results, reverse_results, response>>
       ELSE IF Len(req.target_time) # 3
       THEN /\ response' = ErrorResponse("Invalid target time format. Use HH:MM:SS")
            /\ pc' = "done"
            /\ UNCHANGED <<natural_results, reverse_results>>
       ELSE IF \E k \in 1..3 : ~IsIntLiteral(req.target_time[k])
       THEN /\ response' = ErrorResponse("Error parsing target time: invalid literal for int()")
            /\ pc' = "done"
            /\ UNCHANGED <<natural_results, reverse_results>>
       ELSE IF TargetMovingMinutes(req) <= 0
       THEN /\ response' = ErrorResponse("Target time is too short")
            /\ pc' = "done"
            /\ UNCHANGED <<natural_results, reverse_results>>
       ELSE AllocateNatural(TargetMovingMinutes(req),
                calculate_natural_pacing(segments_basic_data, Athlete(req)))
    /\ UNCHANGED <<req, segments_basic_data, segments, search, effort_thresholds,
                   paceVars, engineVars, sideVars>>

\* total_moving_time: the sum of the segment times the loop adds up
TotalMovingTime(r, basic, reverse) ==
    IF UseTargetTime(r)
    THEN SumSeq([i \in 1..Len(basic) |-> reverse[i].segment_time])
    ELSE SumNaturalTime(calculate_natural_pacing(basic, Athlete(r)))

\* "Calculate segments with cumulative effort tracking"
ComputeSegments ==
    /\ pc = "loop"
    /\ segments' = SegmentLoop(req, segments_basic_data,
                               IF UseTargetTime(req) THEN reverse_results.results ELSE <<>>,
                               1, 0, 0)
    /\ pc' = IF UseTargetTime(req) /\ natural_results # <<>>
             THEN "thresholds" ELSE "respond"
    /\ UNCHANGED <<req, segments_basic_data, natural_results, reverse_results, search,
                   effort_thresholds, response, paceVars, engineVars, sideVars>>

SearchIdle == [stage |-> "idle", low |-> 0, high |-> 0, it |-> 0,
               push_threshold |-> 0, protect_threshold |-> 0]

\* calculate_effort_thresholds up to the first binary search
ThresholdsBegin ==
    /\ pc = "thresholds"
    /\ search.stage = "idle"
    /\ IF SumNaturalTime(natural_results) <= 0
       THEN /\ pc' = "respond"
            /\ UNCHANGED search
       ELSE /\ search' = [stage |-> "push",
                          low |-> SearchDenom \div 2, high |-> SearchDenom, it |-> 0,
                          push_threshold |-> (SearchDenom * 9) \div 10,
                          protect_threshold |-> 0]
            /\ UNCHANGED pc
    /\ UNCHANGED <<req, segments_basic_data, natural_results, reverse_results, segments,
                   effort_thresholds, response, paceVars, engineVars, sideVars>>

\* the protect search started over the range of the push search
ProtectSearchBelow(push_threshold) ==
    [stage |-> "protect", low |-> SearchDenom \div 2, high |-> SearchDenom,
     it |-> 0, push_threshold |-> push_threshold,
     protect_threshold |-> (SearchDenom * 11) \div 10]

\* the start of the protect search: low, high = natural, natural * 1.5
ProtectSearch(push_threshold) ==
    [stage |-> "protect", low |-> SearchDenom, high |-> (SearchDenom * 3) \div 2,
     it |-> 0, push_threshold |-> push_threshold,
     protect_threshold |-> (SearchDenom * 11) \div 10]

\* the bounds of the push search after the simulation at mid
PushNarrow(mid, pct_at_threshold) ==
    IF CloseToHalf(pct_at_threshold)
    THEN ProtectSearch(mid)
    ELSE IF BelowHalf(pct_at_threshold)
    THEN [search EXCEPT !.high = mid, !.it = @ + 1]
    ELSE [search EXCEPT !.low = mid, !.it = @ + 1]

\* one iteration of the binary search for the push threshold
PushStep ==
    /\ pc = "thresholds"
    /\ search.stage = "push"
    /\ search.it < SearchIters
    /\ LET mid == (search.low + search.high) \div 2
       IN  search' = PushNarrow(mid,
               simulate_push_segments(Dyadic(SumNaturalTime(natural_results), mid)[1],
                   segments_basic_data, natural_results, Athlete(req)))
    /\ UNCHANGED <<req, pc, segments_basic_data, natural_results, reverse_results,
                   segments, effort_thresholds, response, paceVars, engineVars, sideVars>>

\* the else of the push for-loop: the midpoint of the final range
PushExhausted ==
    /\ pc = "thresholds"
    /\ search.stage = "push"
    /\ search.it = SearchIters
    /\ search' = ProtectSearch((search.low + search.high) \div 2)
    /\ UNCHANGED <<req, pc, segments_basic_data, natural_results, reverse_results,
                   segments, effort_thresholds, response, paceVars, engineVars, sideVars>>

\* the bounds of the protect search after the simulation at mid
ProtectNarrow(mid, pct_at_threshold) ==
    IF CloseToHalf(pct_at_threshold)
    THEN [search EXCEPT !.stage = "finished", !.protect_threshold = mid]
    ELSE IF BelowHalf(pct_at_threshold)
    THEN [search EXCEPT !.low = mid, !.it = @ + 1]
    ELSE [search EXCEPT !.high = mid, !.it = @ + 1]

\* one iteration of the binary search for the protect threshold
ProtectStep ==
    /\ pc = "thresholds"
    /\ search.stage = "protect"
    /\ search.it < SearchIters
    /\ LET mid == (search.low + search.high) \div 2
       IN  search' = ProtectNarrow(mid,
               simulate_protect_segments(Dyadic(SumNaturalTime(natural_results), mid)[1],
                   segments_basic_data, natural_results, Athlete(req)))
    /\ UNCHANGED <<req, pc, segments_basic_data, natural_results, reverse_results,
                   segments, effort_thresholds, response, paceVars, engineVars, sideVars>>

\* the else of the protect for-loop
ProtectExhausted ==
    /\ pc = "thresholds"
    /\ search.stage = "protect"
    /\ search.it = SearchIters
    /\ search' = [search EXCEPT !.stage = "finished",
                                !.protect_threshold = (search.low + search.high) \div 2]
    /\ UNCHANGED <<req, pc, segments_basic_data, natural_results, reverse_results,
                   segments, effort_thresholds, response, paceVars, engineVars, sideVars>>

\* x + t for an exact time x = <<whole, remainder>>
TimePlus(x, t) == <<x[1] + t, x[2]>>

\* the dwell counted once per segment instead of once per checkpoint
ThresholdCpTimePerSegment(num_checkpoints, avg_cp_time) ==
    (num_checkpoints + 1) * avg_cp_time

\* total_cp_time = num_checkpoints * avg_cp_time of calculate_effort_thresholds
ThresholdCpTime(num_checkpoints, avg_cp_time) == num_checkpoints * avg_cp_time

\* the result dict of calculate_effort_thresholds: checkpoint time added
ThresholdsReturn ==
    /\ pc = "thresholds"
    /\ search.stage = "finished"
    /\ LET natural_total_time == SumNaturalTime(natural_results)
           total_cp_time == ThresholdCpTime(NumCheckpoints(req), req.avg_cp_time)
       IN  effort_thresholds' =
               [natural_time_minutes |-> <<natural_total_time + total_cp_time, 0>>,
                push_threshold_minutes |->
                    TimePlus(Dyadic(natural_total_time, search.push_threshold), total_cp_time),
                protect_threshold_minutes |->
                    TimePlus(Dyadic(natural_total_time, search.protect_threshold), total_cp_time)]
    /\ pc' = "respond"
    /\ UNCHANGED <<req, segments_basic_data, natural_results, reverse_results, segments,
                   search, response, paceVars, engineVars, sideVars>>

\* the summary of response_data
Summary(r, total_moving_time, num_segments) ==
    [total_moving_time |-> Round2(total_moving_time),
     total_cp_time |-> Round2(TotalCpTime(r)),
     total_race_time |-> Round2(total_moving_time + r.avg_cp_time * (num_segments - 1))]

\* response_data, with effort_thresholds when they were computed
ResponseData(summary) ==
    IF effort_thresholds # NoResult
    THEN [status |-> 200, segments |-> segments, summary |-> summary,
          effort_thresholds |-> effort_thresholds]
    ELSE [status |-> 200, segments |-> segments, summary |-> summary]

\* response_data of calculate()
Respond ==
    /\ pc = "respond"
    /\ response' = ResponseData(Summary(req,
                       TotalMovingTime(req, segments_basic_data,
                           IF UseTargetTime(req) THEN reverse_results.results ELSE <<>>),
                       Len(segments_basic_data)))
    /\ pc' = "done"
    /\ UNCHANGED <<req, segments_basic_data, natural_results, reverse_results, segments,
                   search, effort_thresholds, paceVars, engineVars, sideVars>>

-----------------------------------------------------------------------------
(* Requests *)

MaxPoints == 2          \* profile points after the start point
MaxElevLevel == 2       \* elevation levels 0..MaxElevLevel per point
MaxCheckpoints == 1     \* requested checkpoints

ElevUnit == 4 * 10^2            \* metres per elevation level
PointSpacings == {1, 5}         \* km between profile points
BasePaces == {6 * TimeScale}
CpTimes == {3 * TimeScale}
\* <<climbing_ability, fatigue_enabled, fitness_level, skill_level,
\*   segment_terrain_types>>
CalcAthletes ==
    {<<"conservative", FALSE, "recreational", 2000, <<>>>>,
     <<"conservative", TRUE, "untrained", 8000, <<"technical", "scrambling", "road">>>>,
     <<"elite", TRUE, "untrained", 2000, <<>>>>,
     <<"elite", FALSE, "recreational", 8000, <<"technical", "scrambling", "road">>>>}
\* offsets of the target from the natural total race time
TargetOffsets == {-200 * TimeScale, -20 * TimeScale, -300, 300,
                  20 * TimeScale, 200 * TimeScale}

Profiles ==
    {[k \in 1..(MaxPoints + 1) |->
          [distance |-> (k - 1) * sp, elevation |-> ElevUnit * lv[k]]] :
        sp \in PointSpacings, lv \in [1..(MaxPoints + 1) -> 0..MaxElevLevel]}

\* non-decreasing checkpoint lists over the profile's distances
CheckpointLists(profile) ==
    LET ds == {profile[k].distance : k \in 2..Len(profile)}
    IN  UNION {{cps \in [1..n -> ds] : \A k \in 1..(n - 1) : cps[k] <= cps[k + 1]} :
               n \in 0..MaxCheckpoints}

\* "HH:MM:SS" parts of a time in milli-minutes, rounded down to the second
TimeParts(t) ==
    LET secs == IF t > 0 THEN MulDiv(t, 60, TimeScale) ELSE 0
    IN  <<secs \div 3600, (secs % 3600) \div 60, secs % 60>>

\* the decimal digits of n, at least two of them
RECURSIVE Decimal(_)
Decimal(n) ==
    IF n < 100
    THEN <<Digits[(n \div 10) + 1], Digits[(n % 10) + 1]>>
    ELSE Append(Decimal(n \div 10), Digits[(n % 10) + 1])

\* the fields of the string "HH:MM:SS" for a time in milli-minutes
TimeString(t) == [k \in 1..3 |-> Decimal(TimeParts(t)[k])]

\* target strings that are not HH:MM:SS: the empty string, "03:00", "3h:00:00"
\* and "03:00:00:00"
MalformedTargets ==
    <<EmptyString,
      <<Decimal(3), Decimal(0)>>,
      <<<<"3", "h">>, Decimal(0), Decimal(0)>>,
      <<Decimal(3), Decimal(0), Decimal(0), Decimal(0)>>>>

\* the natural total race time of a request, to place its targets around
NaturalRaceTime(r) ==
    SumNaturalTime(calculate_natural_pacing(
        SegmentsBasicData(r.elevation_profile, r.checkpoint_distances,
                          r.segment_terrain_types), Athlete(r)))
    + TotalCpTime(r)

BaseRequests ==
    {[elevation_profile |-> prof, checkpoint_distances |-> cps,
      segment_terrain_types |-> at[5], avg_cp_time |-> cp, z2_pace |-> bp,
      climbing_ability |-> at[1], fatigue_enabled |-> at[2], fitness_level |-> at[3],
      skill_level |-> at[4], pacing_mode |-> "base_pace", target_time |-> <<>>] :
        prof \in {p \in Profiles : p[1].elevation = ElevUnit},
        cps \in UNION {CheckpointLists(p) : p \in Profiles},
        cp \in CpTimes, bp \in BasePaces, at \in CalcAthletes}

PaceIdle ==
    /\ pin = NoResult /\ pout = NoResult /\ pprev = NoResult
    /\ tin = NoResult /\ tfout = NoResult

\* no engine invocation in progress
EngineIdle == calls = <<>>

GeoIdle == geo = NoResult
PlansIdle == user_plans = <<>> /\ saved_plans = {}
DropbagIdle == dropbag = NoResult
ProbeIdle == probe = NoResult
LoopIdle == loop = NoResult

\* nothing but the engine in use
SideIdle == GeoIdle /\ PlansIdle /\ DropbagIdle /\ ProbeIdle /\ LoopIdle

CalcIdle ==
    /\ req = NoResult /\ pc = "idle" /\ segments_basic_data = <<>>
    /\ natural_results = <<>> /\ reverse_results = NoResult /\ segments = <<>>
    /\ search = SearchIdle /\ effort_thresholds = NoResult /\ response = NoResult

Init ==
    /\ PaceIdle
    /\ EngineIdle
    /\ SideIdle
    /\ \E r \in BaseRequests :
          /\ r.checkpoint_distances \in CheckpointLists(r.elevation_profile)
          /\ \/ req = r
             \/ \E off \in TargetOffsets :
                    req = [r EXCEPT !.pacing_mode = "target_time",
                                    !.target_time = TimeString(NaturalRaceTime(r) + off)]
             \/ /\ r.segment_terrain_types = <<>> /\ ~r.fatigue_enabled
                /\ \E k \in 1..Len(MalformedTargets) :
                       req = [r EXCEPT !.pacing_mode = "target_time",
                                       !.target_time = MalformedTargets[k]]
    /\ pc = "segments"
    /\ segments_basic_data = <<>>
    /\ natural_results = <<>>
    /\ reverse_results = NoResult
    /\ segments = <<>>
    /\ search = SearchIdle
    /\ effort_thresholds = NoResult
    /\ response = NoResult

Next ==
    \/ BuildSegments
    \/ HandleTargetTime
    \/ ComputeSegments
    \/ ThresholdsBegin
    \/ PushStep
    \/ PushExhausted
    \/ ProtectStep
    \/ ProtectExhausted
    \/ ThresholdsReturn
    \/ Respond

Spec == Init /\ [][Next]_vars

-----------------------------------------------------------------------------
(* The pace model on its own: adjust_pace_for_elevation over a grid of
   arguments, re-applied as the elevation gain is raised. *)

MaxGainSteps == 3
GainStep == 5 * 10^2
PaceGains == {0, 10, 100} \cup {GainStep * k : k \in 1..MaxGainSteps}
PaceLosses == {0, 100, 1510}
PaceDistances == {-1, 0, 1, 10}
PaceEfforts == {0, 150 * EffortScale}
PaceBasePaces == {6 * TimeScale, 12 * TimeScale}
PaceFitness == {<<FALSE, "recreational">>} \cup ({TRUE} \X FitnessLevels)
PaceTerrains == {"road", "smooth_trail", "technical", "scrambling"}
PaceSkills == {0, 5000, 10000}

PaceInputs ==
    [base_pace : PaceBasePaces, elevation_gain : PaceGains,
     elevation_loss : PaceLosses, distance_km : PaceDistances,
     cumulative_effort : PaceEfforts, climbing_ability : ClimbingAbilities,
     fitness : PaceFitness, terrain_type : PaceTerrains, skill_level : PaceSkills]

PaceOf(a) ==
    adjust_pace_for_elevation(a.base_pace, a.elevation_gain, a.elevation_loss,
        a.distance_km, a.cumulative_effort, a.climbing_ability, a.fitness[1],
        a.fitness[2], a.terrain_type, a.skill_level)

PaceInit ==
    /\ pin \in PaceInputs
    /\ pout = NoResult /\ pprev = NoResult
    /\ tin = NoResult /\ tfout = NoResult
    /\ CalcIdle
    /\ EngineIdle
    /\ SideIdle

\* the call adjust_pace_for_elevation(*pin)
PredictPace ==
    /\ pin # NoResult
    /\ pout = NoResult
    /\ pout' = PaceOf(pin)
    /\ UNCHANGED <<pin, pprev, tin, tfout, calcVars, engineVars, sideVars>>

\* the same call with a larger elevation_gain, everything else held fixed
RaiseGain ==
    /\ pout # NoResult
    /\ \E g \in PaceGains :
          /\ g > pin.elevation_gain
          /\ pin' = [pin EXCEPT !.elevation_gain = g]
          /\ pout' = PaceOf([pin EXCEPT !.elevation_gain = g])
    /\ pprev' = pout
    /\ UNCHANGED <<tin, tfout, calcVars, engineVars, sideVars>>

PaceNext == PredictPace \/ RaiseGain

SpecPace == PaceInit /\ [][PaceNext]_vars

-----------------------------------------------------------------------------
(* The terrain efficiency factor on its own *)

MaxGradSteps == 12
GradStep == 25 * 10^2           \* 2.5 % of gradient
TerrainGradients == {GradStep * k : k \in (-MaxGradSteps)..MaxGradSteps}
TerrainSkills == {0, 2500, 5000, 7500, 10000}

TerrainInit ==
    /\ tin \in [gradient : TerrainGradients, skill_level : TerrainSkills,
                is_descent : BOOLEAN]
    /\ tfout = NoResult
    /\ pin = NoResult /\ pout = NoResult /\ pprev = NoResult
    /\ CalcIdle
    /\ EngineIdle
    /\ SideIdle

\* calculate_terrain_efficiency_factor(t, *tin) for every terrain type t
ApplyTerrain ==
    /\ tin # NoResult
    /\ tfout = NoResult
    /\ tfout' = [t \in TerrainTypes |->
                    calculate_terrain_efficiency_factor(t, tin.gradient,
                        tin.skill_level, tin.is_descent)]
    /\ UNCHANGED <<tin, pin, pout, pprev, calcVars, engineVars, sideVars>>

TerrainNext == ApplyTerrain

SpecTerrain == TerrainInit /\ [][TerrainNext]_vars

\* C1: raising elevation_gain, with distance > 0, loss and everything else
\* fixed, never lowers the final pace adjust_pace_for_elevation returns.
PaceMonotoneInGain ==
    (pprev # NoResult /\ pin.distance_km > 0) => pout.final_pace >= pprev.final_pace

\* C6: for distance > 0 the final pace is at most 2.5 x base_pace, and
\* pace_capped is true exactly when the uncapped pace exceeded 2.5 x base_pace.
CapInvariant ==
    (pout # NoResult /\ pin.distance_km > 0) =>
        /\ 10 * pout.final_pace <= 25 * pin.base_pace
        /\ pout.pace_capped <=> (10 * pout.uncapped_pace > 25 * pin.base_pace)

CapWitness ==
    /\ pout # NoResult /\ pin.distance_km > 0
    /\ pout.pace_capped /\ 10 * pout.final_pace = 25 * pin.base_pace

\* C10 as stated: for every gradient, direction and skill level in [0, 1],
\* scrambling > technical > smooth_trail strictly, and smooth_trail is 1.0 at
\* zero gradient.
TerrainOrderingStrict ==
    tfout # NoResult =>
        /\ tfout["scrambling"] > tfout["technical"]
        /\ tfout["technical"] > tfout["smooth_trail"]
        /\ (tin.gradient = 0 => tfout["smooth_trail"] = FScale)

\* C10 amended: the ordering is strict for every skill level below 1.0; at
\* skill level 1.0 the three factors are all exactly 1.0.
TerrainOrdering ==
    tfout # NoResult =>
        /\ tin.skill_level < FScale =>
               /\ tfout["scrambling"] > tfout["technical"]
               /\ tfout["technical"] > tfout["smooth_trail"]
        /\ tin.skill_level = FScale =>
               /\ tfout["scrambling"] = FScale
               /\ tfout["technical"] = FScale
               /\ tfout["smooth_trail"] = FScale
        /\ (tin.gradient = 0 => tfout["smooth_trail"] = FScale)

TerrainOrderingWitness ==
    /\ tfout # NoResult
    /\ tin.skill_level = 5000 /\ tin.gradient = 4 * GradStep /\ tin.is_descent
    /\ tfout["scrambling"] > tfout["technical"]
    /\ tfout["technical"] > tfout["smooth_trail"]
    /\ tfout["smooth_trail"] > FScale

-----------------------------------------------------------------------------
(* Properties of calculate() and the engine behind it *)

\* the moving-time target of the request: target total minus checkpoint stops
TargetMovingTime == TargetTotalMinutes(req.target_time) - TotalCpTime(req)

Allocated == reverse_results # NoResult
Returned == reverse_results # NoResult /\ ~reverse_results.raised
Succeeded == pc = "done" /\ response.status = 200

NaturalTotal == SumNaturalTime(natural_results)

\* natural_total_time x fitness_budget[tier]
Budget == MulDiv(NaturalTotal, fitness_budget_map[req.fitness_level], FScale)

\* the requested |delta_t| exceeds the budget
Infeasible == Abs(NaturalTotal - TargetMovingTime) > Budget

\* sum over segments of |allocated segment_time - natural_time|
TotalAdjustment ==
    SumSeq([i \in 1..Len(natural_results) |->
               Abs(reverse_results.results[i].segment_time
                   - natural_results[i].natural_time)])

\* C2: in target_time mode the final cumulative time equals the requested
\* target total time within 0.1 min, and the segment times sum to the target
\* minus num_checkpoints x avg_cp_time within 0.1 min.
TargetTimeHit ==
    (Succeeded /\ UseTargetTime(req)) =>
        /\ Abs(response.segments[Len(response.segments)].cumulative_time
               - TargetTotalMinutes(req.target_time)) <= TimeScale \div 10
        /\ Abs(SumSeq([i \in 1..Len(response.segments) |->
                          response.segments[i].segment_time])
               - TargetMovingTime) <= TimeScale \div 10

\* C3: the summed |segment_time - natural_time| returned by
\* allocate_effort_to_target is at most natural_total_time x fitness_budget.
BudgetClamping ==
    Returned => TotalAdjustment <= Budget

BudgetClampingWitness ==
    /\ Returned /\ Infeasible
    /\ TotalAdjustment > 0
    /\ \E i \in 1..Len(natural_results) :
           reverse_results.results[i].effort_level # "steady"

\* C4: whenever the requested |delta_t| exceeds the budget, the result tells
\* the caller so: it differs from the result of the feasible request whose
\* |delta_t| is exactly the budget.
InfeasibleTargetSurfaced ==
    (Succeeded /\ UseTargetTime(req) /\ Infeasible) =>
        reverse_results.results #
            allocate_effort_to_target(
                IF NaturalTotal > TargetMovingTime
                THEN NaturalTotal - Budget ELSE NaturalTotal + Budget,
                segments_basic_data, natural_results, Athlete(req)).results

\* C5: with a zero-distance segment in the list, allocation completes without
\* a division by zero.
ZeroDistanceSafe ==
    (Allocated /\ \E i \in 1..Len(segments_basic_data) :
                      segments_basic_data[i].distance = 0)
        => ~reverse_results.raised

\* pace_capped of the forward pace model for segment i of the request
ForwardCapped(i) ==
    LET seg == segments_basic_data[i]
    IN  adjust_pace_for_elevation(req.z2_pace, seg.elev_gain, seg.elev_loss,
            seg.distance, EffortBefore(segments_basic_data, i), req.climbing_ability,
            req.fatigue_enabled, req.fitness_level, seg.terrain_type,
            req.skill_level).pace_capped

\* C7: in either mode every output segment has pace_capped true whenever the
\* forward pace model clamped its natural pace.
CappedFlagSurfaced ==
    Succeeded =>
        \A i \in 1..Len(response.segments) :
            ForwardCapped(i) => response.segments[i].pace_capped

\* C8: whenever |natural_total_time - target_moving_time| < 0.5 min every
\* segment comes back with its natural time, natural pace and 'steady'.
RoundTrip ==
    (Returned /\ Abs(NaturalTotal - TargetMovingTime) < TimeScale \div 2) =>
        \A i \in 1..Len(natural_results) :
            /\ reverse_results.results[i].segment_time = natural_results[i].natural_time
            /\ reverse_results.results[i].required_pace = natural_results[i].natural_pace
            /\ reverse_results.results[i].effort_level = "steady"

RoundTripWitness ==
    /\ Returned
    /\ NaturalTotal # TargetMovingTime
    /\ Abs(NaturalTotal - TargetMovingTime) < TimeScale \div 2
    /\ Len(reverse_results.results) >= 2

\* C9: a returned threshold result has
\* push_threshold_minutes < natural_time_minutes < protect_threshold_minutes.
ThresholdSanity ==
    effort_thresholds # NoResult =>
        /\ TimeLess(effort_thresholds.push_threshold_minutes,
                    effort_thresholds.natural_time_minutes)
        /\ TimeLess(effort_thresholds.natural_time_minutes,
                    effort_thresholds.protect_threshold_minutes)

ThresholdSanityWitness ==
    /\ effort_thresholds # NoResult
    /\ search.stage = "finished" /\ search.it = SearchIters
    /\ TimeLess(effort_thresholds.natural_time_minutes,
                effort_thresholds.protect_threshold_minutes)

-----------------------------------------------------------------------------
(* Contracts of the pace model *)

\* C11: for distance_km = 0 and any other inputs adjust_pace_for_elevation
\* returns final pace = base_pace, fatigue seconds = 0, terrain_factor = 1.0
\* and pace_capped = false.
ZeroDistancePrediction ==
    (pout # NoResult /\ pin.distance_km = 0) =>
        /\ pout.final_pace = pin.base_pace
        /\ pout.fatigue_seconds = 0
        /\ pout.terrain_factor = FScale
        /\ ~pout.pace_capped

ZeroDistancePredictionWitness ==
    /\ pout # NoResult /\ pin.distance_km = 0
    /\ pin.elevation_gain > 0 /\ pin.elevation_loss > 0
    /\ pin.fitness[1] /\ pin.cumulative_effort > FITNESS_LEVEL_PARAMS[pin.fitness[2]].fop
    /\ pin.terrain_type = "scrambling"
    /\ pout.final_pace = pin.base_pace

\* C12: adjust_pace_for_elevation called with distance_km < 0 reports an
\* error to its caller instead of returning a pace, and for distance_km >= 0
\* it returns a pace and never an error.
NegativeDistanceRejected ==
    pout # NoResult =>
        ((pin.distance_km < 0) <=> ("final_pace" \notin DOMAIN pout))

-----------------------------------------------------------------------------
(* Contracts of calculate() *)

InvalidTarget ==
    /\ req.pacing_mode = "target_time"
    /\ \/ Len(req.target_time) # 3
       \/ \E k \in 1..3 : ~IsIntLiteral(req.target_time[k])
       \/ TargetTotalMinutes(req.target_time) <= TotalCpTime(req)

\* C13: in target_time mode a target that is at most num_checkpoints x
\* avg_cp_time, or a target string that is not three colon-separated integers
\* (the empty string included), makes calculate() answer an error with a
\* reason and no segment results, never the base-pace results.
InvalidTargetRejected ==
    (pc = "done" /\ InvalidTarget) =>
        /\ response.status = 400
        /\ "error" \in DOMAIN response
        /\ "segments" \notin DOMAIN response

-----------------------------------------------------------------------------
(* The engine functions called directly, one loop iteration per step *)

MaxSegments == 2

\* the route and athlete of test_threshold_with_params.py
ExampleRoute ==
    <<[distance |-> 10, elev_gain |-> 500, elev_loss |-> 100, terrain_type |-> "rocky_runnable"],
      [distance |-> 10, elev_gain |-> 100, elev_loss |-> 100, terrain_type |-> "smooth_trail"],
      [distance |-> 10, elev_gain |-> 100, elev_loss |-> 500, terrain_type |-> "rocky_runnable"]>>

ExampleAthlete ==
    [base_pace |-> 6 * TimeScale, climbing_ability |-> "moderate",
     fatigue_enabled |-> FALSE, fitness_level |-> "recreational", skill_level |-> 5000]

\* the sample segments of test_threshold_with_params.py (climb, flat,
\* descent), a one-kilometre road segment, and a 12% climb and a 12% descent
\* on technical ground
SegmentKinds ==
    {[distance |-> 10, elev_gain |-> 500, elev_loss |-> 100, terrain_type |-> "rocky_runnable"],
     [distance |-> 10, elev_gain |-> 100, elev_loss |-> 100, terrain_type |-> "smooth_trail"],
     [distance |-> 10, elev_gain |-> 100, elev_loss |-> 500, terrain_type |-> "rocky_runnable"],
     [distance |-> 1, elev_gain |-> 0, elev_loss |-> 0, terrain_type |-> "road"],
     [distance |-> 5, elev_gain |-> 600, elev_loss |-> 0, terrain_type |-> "technical"],
     [distance |-> 5, elev_gain |-> 0, elev_loss |-> 600, terrain_type |-> "technical"]}

\* the segment calculate() builds between two checkpoints resolved to the
\* same profile point
ZeroSegment ==
    [distance |-> 0, elev_gain |-> 0, elev_loss |-> 0, terrain_type |-> "road"]

\* every course of up to MaxSegments segments, the example route, and the
\* courses of zero-distance segments only
SegmentLists ==
    UNION {[1..n -> SegmentKinds] : n \in 1..MaxSegments} \cup {ExampleRoute}
    \cup {[i \in 1..n |-> ZeroSegment] : n \in 1..MaxSegments}

EngineAthletes ==
    {ExampleAthlete,
     [base_pace |-> 6 * TimeScale, climbing_ability |-> "conservative",
      fatigue_enabled |-> TRUE, fitness_level |-> "recreational", skill_level |-> 2000],
     [base_pace |-> 4 * TimeScale, climbing_ability |-> "elite",
      fatigue_enabled |-> TRUE, fitness_level |-> "untrained", skill_level |-> 8000]}

\* targets around the natural total time: 0.45 and 0.6 minutes away, 8% to
\* 30% away, and away by exactly the summed capacity of the segments
TargetPermille == {-300, -150, -80, 80, 150, 300}
EngineTargets(segments_data, natural, athlete) ==
    {SumNaturalTime(natural) - 450, SumNaturalTime(natural) + 450,
     SumNaturalTime(natural) - 600, SumNaturalTime(natural) + 600,
     SumNaturalTime(natural)
         - SumSeq(MaxAdjustments(segments_data, natural, athlete, TRUE)),
     SumNaturalTime(natural)
         + SumSeq(MaxAdjustments(segments_data, natural, athlete, FALSE))}
    \cup {SumNaturalTime(natural) + SMulDiv(p, SumNaturalTime(natural), 1000) :
              p \in TargetPermille}

\* the locals of calculate_natural_pacing on entry: results = [],
\* cumulative_effort = 0.0; the target is kept for the allocation that follows
EnterNaturalPacing(segments_data, athlete, target_time_minutes) ==
    [segments_data |-> segments_data, athlete |-> athlete,
     target_time_minutes |-> target_time_minutes, pc |-> "natural",
     results |-> <<>>, cumulative_effort |-> 0,
     allocation |-> NoResult, simulated |-> NoResult]

\* cumulative_effort reset to the segment's own effort instead of accumulated
ResetEffort(cumulative_effort, seg_data) == SegmentEffort(seg_data)

\* cumulative_effort += segment_effort
NextEffort(cumulative_effort, seg_data) == cumulative_effort + SegmentEffort(seg_data)

\* the natural pace taken as the base pace whatever the segment
FlatPaceAt(seg_data, cumulative_effort, athlete) == athlete.base_pace

\* the natural pace of one segment entered with the given cumulative effort
NaturalPaceAt(seg_data, cumulative_effort, athlete) ==
    adjust_pace_for_elevation(athlete.base_pace, seg_data.elev_gain, seg_data.elev_loss,
                              seg_data.distance, cumulative_effort,
                              athlete.climbing_ability, athlete.fatigue_enabled,
                              athlete.fitness_level, seg_data.terrain_type,
                              athlete.skill_level).final_pace

\* cumulative_effort kept in one module-level variable shared by every
\* invocation instead of a local of each
StoreShared(cs, k, c) ==
    [j \in DOMAIN cs |->
        IF j = k THEN c ELSE [cs[j] EXCEPT !.cumulative_effort = c.cumulative_effort]]

\* results, cumulative_effort and the other names assigned by an engine
\* function are locals of the invocation
StoreLocals(cs, k, c) == [cs EXCEPT ![k] = c]

\* one iteration of the for-loop of calculate_natural_pacing
NaturalIteration(c, seg_data) ==
    [c EXCEPT !.results = Append(c.results,
                              NaturalEntry(NaturalPaceAt(seg_data, c.cumulative_effort,
                                                         c.athlete),
                                           seg_data.distance)),
              !.cumulative_effort = NextEffort(c.cumulative_effort, seg_data)]

NaturalStep(k) ==
    /\ calls[k].pc = "natural"
    /\ Len(calls[k].results) < Len(calls[k].segments_data)
    /\ calls' = StoreLocals(calls, k,
                    NaturalIteration(calls[k],
                        calls[k].segments_data[Len(calls[k].results) + 1]))
    /\ UNCHANGED <<paceVars, calcVars, sideVars>>

\* the loop is exhausted: return results
NaturalReturn(k) ==
    /\ calls[k].pc = "natural"
    /\ Len(calls[k].results) = Len(calls[k].segments_data)
    /\ calls' = StoreLocals(calls, k, [calls[k] EXCEPT !.pc = "allocate"])
    /\ UNCHANGED <<paceVars, calcVars, sideVars>>

\* allocate_effort_to_target(target, segments_data, natural_results, ...)
AllocateCall(c) ==
    [c EXCEPT !.allocation = allocate_effort_to_target(c.target_time_minutes,
                                 c.segments_data, c.results, c.athlete),
              !.pc = "simulate"]

Allocate(k) ==
    /\ calls[k].pc = "allocate"
    /\ calls' = StoreLocals(calls, k, AllocateCall(calls[k]))
    /\ UNCHANGED <<paceVars, calcVars, sideVars>>

\* simulate_push_segments(target) and simulate_protect_segments(target), each
\* <<segments_at_threshold, total_segments>>
SimulateCall(c) ==
    [c EXCEPT !.simulated =
                  [push |-> simulate_push_segments(c.target_time_minutes,
                                c.segments_data, c.results, c.athlete),
                   protect |-> simulate_protect_segments(c.target_time_minutes,
                                   c.segments_data, c.results, c.athlete)],
              !.pc = "done"]

Simulate(k) ==
    /\ calls[k].pc = "simulate"
    /\ calls' = StoreLocals(calls, k, SimulateCall(calls[k]))
    /\ UNCHANGED <<paceVars, calcVars, sideVars>>

EngineInit ==
    /\ PaceIdle
    /\ CalcIdle
    /\ SideIdle
    /\ \E segments_data \in SegmentLists, athlete \in EngineAthletes :
          \E target \in EngineTargets(segments_data,
                             calculate_natural_pacing(segments_data, athlete), athlete) :
              calls = <<EnterNaturalPacing(segments_data, athlete, target)>>

EngineNext ==
    \/ \E k \in DOMAIN calls : NaturalStep(k)
    \/ \E k \in DOMAIN calls : NaturalReturn(k)
    \/ \E k \in DOMAIN calls : Allocate(k)
    \/ \E k \in DOMAIN calls : Simulate(k)

SpecEngine == EngineInit /\ [][EngineNext]_vars

\* two invocations in flight at once, as two requests served by two threads
\* of the server: courses of MaxSegments equal segments, 15% faster or 8%
\* slower than natural
ConcurrentInputs ==
    {EnterNaturalPacing(segments_data, athlete,
         SumNaturalTime(calculate_natural_pacing(segments_data, athlete))
         + SMulDiv(p, SumNaturalTime(calculate_natural_pacing(segments_data, athlete)),
                   1000)) :
        segments_data \in {[i \in 1..MaxSegments |-> kind] : kind \in SegmentKinds},
        athlete \in {a \in EngineAthletes : a.fatigue_enabled},
        p \in {-150, 80}}

ConcurrentInit ==
    /\ PaceIdle
    /\ CalcIdle
    /\ SideIdle
    /\ \E first \in ConcurrentInputs, second \in ConcurrentInputs :
          calls = <<first, second>>

SpecConcurrent == ConcurrentInit /\ [][EngineNext]_vars

\* C14: in calculate_natural_pacing the cumulative effort never decreases,
\* the effort used for segment i is the sum of distance + gain/100 + loss/200
\* over the segments before i only, and the first segment is computed with
\* effort 0.
EffortThreading ==
    \A k \in DOMAIN calls :
        /\ calls[k].cumulative_effort =
               EffortBefore(calls[k].segments_data, Len(calls[k].results) + 1)
        /\ \A i \in 1..Len(calls[k].results) :
               /\ EffortBefore(calls[k].segments_data, i)
                      <= EffortBefore(calls[k].segments_data, i + 1)
               /\ calls[k].results[i].natural_pace =
                      NaturalPaceAt(calls[k].segments_data[i],
                                    EffortBefore(calls[k].segments_data, i),
                                    calls[k].athlete)
        /\ calls[k].results # <<>> =>
               calls[k].results[1].natural_pace =
                   NaturalPaceAt(calls[k].segments_data[1], 0, calls[k].athlete)
        /\ calls[k].pc # "natural" =>
               calls[k].results =
                   calculate_natural_pacing(calls[k].segments_data, calls[k].athlete)

\* a third segment whose pace depends on the effort of the two before it
EffortThreadingWitness ==
    \E k \in DOMAIN calls :
        /\ calls[k].pc = "done"
        /\ Len(calls[k].results) = 3
        /\ calls[k].results[3].natural_pace #
               NaturalPaceAt(calls[k].segments_data[3], 0, calls[k].athlete)
        /\ calls[k].results[3].natural_pace #
               NaturalPaceAt(calls[k].segments_data[3],
                             SegmentEffort(calls[k].segments_data[2]), calls[k].athlete)

\* what the invocation returns when it runs alone
NaturalAlone(c) == calculate_natural_pacing(c.segments_data, c.athlete)

\* C15: two engine invocations whose steps interleave each compute what they
\* compute alone: the natural pacing, the allocation and the simulated
\* fractions of an invocation depend on its own arguments only.
RequestIndependence ==
    \A k \in DOMAIN calls :
        /\ calls[k].results = SubSeq(NaturalAlone(calls[k]), 1, Len(calls[k].results))
        /\ calls[k].allocation # NoResult =>
               calls[k].allocation =
                   allocate_effort_to_target(calls[k].target_time_minutes,
                       calls[k].segments_data, NaturalAlone(calls[k]), calls[k].athlete)
        /\ calls[k].simulated # NoResult =>
               /\ calls[k].simulated.push =
                      simulate_push_segments(calls[k].target_time_minutes,
                          calls[k].segments_data, NaturalAlone(calls[k]), calls[k].athlete)
               /\ calls[k].simulated.protect =
                      simulate_protect_segments(calls[k].target_time_minutes,
                          calls[k].segments_data, NaturalAlone(calls[k]), calls[k].athlete)

\* both invocations are inside their loops, on different courses, and the
\* first has accumulated enough effort for fatigue to act on its next segment
RequestIndependenceWitness ==
    /\ Len(calls) = 2
    /\ calls[1].pc = "natural" /\ calls[2].pc = "natural"
    /\ Len(calls[1].results) = 2 /\ Len(calls[2].results) = 1
    /\ calls[1].segments_data # calls[2].segments_data
    /\ calls[1].cumulative_effort >
           FITNESS_LEVEL_PARAMS[calls[1].athlete.fitness_level].fop
    /\ calls[2].cumulative_effort < calls[1].cumulative_effort

\* C16: on the three-segment example route (climb, flat, descent) with base
\* pace 6.0, moderate climbing, fatigue disabled and skill 0.5,
\* calculate_natural_pacing gives segment 1 a natural pace strictly greater
\* than segment 2's.
ExampleClimbSlower ==
    \A k \in DOMAIN calls :
        (/\ calls[k].segments_data = ExampleRoute
         /\ calls[k].athlete = ExampleAthlete
         /\ calls[k].pc # "natural") =>
            calls[k].results[1].natural_pace > calls[k].results[2].natural_pace

\* the example has run: 10.66 min/km on the climb, 6.73 min/km on the flat
ExampleClimbSlowerWitness ==
    \E k \in DOMAIN calls :
        /\ calls[k].segments_data = ExampleRoute
        /\ calls[k].athlete = ExampleAthlete
        /\ calls[k].pc = "done"
        /\ Abs(calls[k].results[1].natural_pace - 10661) <= 5
        /\ Abs(calls[k].results[2].natural_pace - 6731) <= 5

-----------------------------------------------------------------------------
(* Contracts of the allocator and the threshold classifier *)

\* the segments of an allocation carrying the given label
Labelled(c, label) ==
    {i \in 1..Len(c.allocation.results) : c.allocation.results[i].effort_level = label}

\* C17: for a target faster than natural the fraction simulate_push_segments
\* returns equals the fraction of segments allocate_effort_to_target labels
\* 'push' for the same target, and for a slower target
\* simulate_protect_segments equals the fraction labelled 'protect'.
ClassifierMatchesAllocator ==
    \A k \in DOMAIN calls :
        (calls[k].pc = "done" /\ ~calls[k].allocation.raised) =>
            /\ calls[k].target_time_minutes < SumNaturalTime(calls[k].results) =>
                   calls[k].simulated.push =
                       <<Cardinality(Labelled(calls[k], "push")), Len(calls[k].results)>>
            /\ calls[k].target_time_minutes > SumNaturalTime(calls[k].results) =>
                   calls[k].simulated.protect =
                       <<Cardinality(Labelled(calls[k], "protect")), Len(calls[k].results)>>

\* |delta_t| of an invocation and the conditions under which the target is
\* within reach: outside the near-match band, within the fitness budget and
\* within the summed capacity of the segments
AbsDelta(c) == Abs(SumNaturalTime(c.results) - c.target_time_minutes)

Feasible(c) ==
    /\ AbsDelta(c) >= NearMatchTolerance
    /\ AbsDelta(c) <= MulDiv(SumNaturalTime(c.results),
                             fitness_budget_map[c.athlete.fitness_level], FScale)
    /\ AbsDelta(c) <= SumSeq(MaxAdjustments(c.segments_data, c.results, c.athlete,
                                 SumNaturalTime(c.results) > c.target_time_minutes))

AllocatedTotal(c) ==
    SumSeq([i \in 1..Len(c.allocation.results) |-> c.allocation.results[i].segment_time])

\* C18: whenever 0.5 <= |delta_t| <= natural_total_time x fitness_budget and
\* |delta_t| is at most the summed capacity, the segment times returned by
\* allocate_effort_to_target sum to the target (to the rounding of one
\* thousandth of a minute per segment).
FeasibleTargetHit ==
    \A k \in DOMAIN calls :
        (calls[k].allocation # NoResult /\ ~calls[k].allocation.raised
         /\ Feasible(calls[k])) =>
            Abs(AllocatedTotal(calls[k]) - calls[k].target_time_minutes)
                <= Len(calls[k].results)

\* (min_mult, max_mult, effort_cost) of segment i of an invocation
BoundsOf(c, i) ==
    get_terrain_effort_bounds(c.segments_data[i].elev_gain, c.segments_data[i].elev_loss,
                              c.segments_data[i].distance, c.athlete.climbing_ability,
                              c.athlete.skill_level)

SpeedingUp(c) == SumNaturalTime(c.results) > c.target_time_minutes

\* C19: for every segment with natural time > 0 and every target the
\* segment_time returned by allocate_effort_to_target lies in
\* [min_mult x natural_time, natural_time] when speeding up and in
\* [natural_time, max_mult x natural_time] when slowing down, with the bounds
\* of get_terrain_effort_bounds; segment_time is strictly positive.
SegmentBoundsRespected ==
    \A k \in DOMAIN calls :
        (calls[k].allocation # NoResult /\ ~calls[k].allocation.raised) =>
            \A i \in 1..Len(calls[k].results) :
                calls[k].results[i].natural_time > 0 =>
                    /\ calls[k].allocation.results[i].segment_time > 0
                    /\ IF SpeedingUp(calls[k])
                       THEN /\ calls[k].allocation.results[i].segment_time * FScale
                                   >= BoundsOf(calls[k], i)[1]
                                          * calls[k].results[i].natural_time
                            /\ calls[k].allocation.results[i].segment_time
                                   <= calls[k].results[i].natural_time
                       ELSE /\ calls[k].allocation.results[i].segment_time
                                   >= calls[k].results[i].natural_time
                            /\ calls[k].allocation.results[i].segment_time * FScale
                                   <= BoundsOf(calls[k], i)[2]
                                          * calls[k].results[i].natural_time

\* a target beyond the capacity of the course but within the budget: one
\* segment is held at min_mult x natural_time while another keeps room
SegmentBoundsRespectedWitness ==
    \E k \in DOMAIN calls :
        /\ calls[k].allocation # NoResult /\ ~calls[k].allocation.raised
        /\ SpeedingUp(calls[k])
        /\ AbsDelta(calls[k]) <= MulDiv(SumNaturalTime(calls[k].results),
                                     fitness_budget_map[calls[k].athlete.fitness_level],
                                     FScale)
        /\ \E i, j \in 1..Len(calls[k].results) :
               /\ calls[k].allocation.results[i].segment_time =
                      calls[k].results[i].natural_time
                      - MaxAdjustment(calls[k].segments_data, calls[k].results, i,
                                      calls[k].athlete, TRUE)
               /\ calls[k].allocation.results[j].segment_time >
                      calls[k].results[j].natural_time
                      - MaxAdjustment(calls[k].segments_data, calls[k].results, j,
                                      calls[k].athlete, TRUE)

\* the time taken off or added to segment i, read from the returned times
AdjustmentOf(c, i) == Abs(c.results[i].natural_time - c.allocation.results[i].segment_time)

\* C20: in the result of allocate_effort_to_target a segment is labelled
\* 'push' exactly when delta_t > 0 and its adjustment is at least 10% of its
\* natural time, 'protect' exactly when delta_t < 0 and its adjustment is at
\* least 10% of its natural time, and 'steady' otherwise; no result holds both
\* a 'push' and a 'protect' segment.
EffortLabelsFollowThreshold ==
    \A k \in DOMAIN calls :
        (calls[k].allocation # NoResult /\ ~calls[k].allocation.raised) =>
            /\ \A i \in 1..Len(calls[k].results) :
                   calls[k].results[i].natural_time > 0 =>
                   calls[k].allocation.results[i].effort_level =
                       IF AdjustmentOf(calls[k], i) * LabelThresholdInv
                              >= calls[k].results[i].natural_time
                       THEN (IF SumNaturalTime(calls[k].results)
                                    > calls[k].target_time_minutes
                             THEN "push" ELSE "protect")
                       ELSE "steady"
            /\ Labelled(calls[k], "push") = {} \/ Labelled(calls[k], "protect") = {}

\* the fatigue ramp of segment i: min(1 + effort_before/100 x (factor - 1),
\* factor) with fatigue enabled, 1 without
FatigueRamp(c, i) ==
    IF c.athlete.fatigue_enabled
    THEN Min2(FScale + MulDiv(EffortBefore(c.segments_data, i),
                              fitness_fatigue_map[c.athlete.fitness_level] - FScale,
                              EffortScale * 100),
              fitness_fatigue_map[c.athlete.fitness_level])
    ELSE FScale

\* total cost, capacity and capacity/total_cost of segment i
CostOf(c, i) == MulDiv(BoundsOf(c, i)[3], FatigueRamp(c, i), FScale)

CapacityOf(c, i) ==
    MulDiv(c.results[i].natural_time,
           IF SpeedingUp(c) THEN FScale - BoundsOf(c, i)[1]
           ELSE BoundsOf(c, i)[2] - FScale,
           FScale)

WeightOf(c, i) == MulDiv(CapacityOf(c, i), FScale, CostOf(c, i))

\* the delta handed out: |delta_t|, held to the fitness budget
DistributedDelta(c) ==
    Min2(AbsDelta(c), MulDiv(SumNaturalTime(c.results),
                             fitness_budget_map[c.athlete.fitness_level], FScale))

\* |delta_t| x (capacity/total_cost) / sum of (capacity/total_cost)
UncappedShare(c, i) ==
    MulDiv(WeightOf(c, i), DistributedDelta(c),
           SumSeq([j \in 1..Len(c.results) |-> WeightOf(c, j)]))

\* the allocation went through the distribution loop
Distributed(c) ==
    /\ c.allocation # NoResult /\ ~c.allocation.raised
    /\ AbsDelta(c) >= NearMatchTolerance
    /\ SumSeq([j \in 1..Len(c.results) |-> CapacityOf(c, j)]) > 0

\* C21: each segment's adjustment is its cost-weighted share |delta_t| x
\* (capacity/total_cost) / sum of (capacity/total_cost), held to its
\* capacity, with total_cost the terrain effort cost times the fatigue ramp;
\* of two segments with equal capacity the one with the lower total cost
\* receives at least as large an adjustment; with fatigue enabled, of two
\* segments with the same natural time and the same terrain bounds the
\* earlier receives at least as large an adjustment as the later.
CostWeightedAllocation ==
    \A k \in DOMAIN calls :
        Distributed(calls[k]) =>
            \A i \in 1..Len(calls[k].results) :
                /\ AdjustmentOf(calls[k], i) =
                       Min2(UncappedShare(calls[k], i), CapacityOf(calls[k], i))
                /\ \A j \in 1..Len(calls[k].results) :
                       /\ (/\ CapacityOf(calls[k], i) = CapacityOf(calls[k], j)
                           /\ CostOf(calls[k], i) <= CostOf(calls[k], j)) =>
                              AdjustmentOf(calls[k], i) >= AdjustmentOf(calls[k], j)
                       /\ (/\ calls[k].athlete.fatigue_enabled
                           /\ i < j
                           /\ calls[k].results[i].natural_time
                                  = calls[k].results[j].natural_time
                           /\ BoundsOf(calls[k], i) = BoundsOf(calls[k], j)) =>
                              AdjustmentOf(calls[k], i) >= AdjustmentOf(calls[k], j)

\* two segments of the same natural time and terrain bounds, fatigue enabled:
\* the later one costs more and is adjusted strictly less, neither at its cap
CostWeightedAllocationWitness ==
    \E k \in DOMAIN calls :
        /\ Distributed(calls[k])
        /\ calls[k].athlete.fatigue_enabled
        /\ Len(calls[k].results) = 2
        /\ calls[k].results[1].natural_time = calls[k].results[2].natural_time
        /\ BoundsOf(calls[k], 1) = BoundsOf(calls[k], 2)
        /\ CostOf(calls[k], 1) < CostOf(calls[k], 2)
        /\ AdjustmentOf(calls[k], 1) > AdjustmentOf(calls[k], 2)
        /\ AdjustmentOf(calls[k], 1) < CapacityOf(calls[k], 1)

\* C22: when the summed adjustment capacity over all segments is zero and
\* |delta_t| >= 0.5, allocate_effort_to_target returns every segment's
\* natural time and natural pace unmodified with effort_level 'steady', and
\* raises no error.
DegenerateFallsBack ==
    \A k \in DOMAIN calls :
        (/\ calls[k].allocation # NoResult
         /\ AbsDelta(calls[k]) >= NearMatchTolerance
         /\ SumSeq([j \in 1..Len(calls[k].results) |-> CapacityOf(calls[k], j)]) = 0) =>
            /\ ~calls[k].allocation.raised
            /\ Len(calls[k].allocation.results) = Len(calls[k].results)
            /\ \A i \in 1..Len(calls[k].results) :
                   /\ calls[k].allocation.results[i].segment_time =
                          calls[k].results[i].natural_time
                   /\ calls[k].allocation.results[i].required_pace =
                          calls[k].results[i].natural_pace
                   /\ calls[k].allocation.results[i].effort_level = "steady"

\* a course of two zero-distance segments allocated to a target 0.6 minutes
\* from its natural time of 0
DegenerateFallsBackWitness ==
    \E k \in DOMAIN calls :
        /\ calls[k].allocation # NoResult
        /\ Len(calls[k].results) = 2
        /\ SumNaturalTime(calls[k].results) = 0
        /\ AbsDelta(calls[k]) >= NearMatchTolerance
        /\ calls[k].allocation.results[2].required_pace = calls[k].athlete.base_pace

-----------------------------------------------------------------------------
(* calculate() asked for the natural time it reported *)

RoundTripCpTimes == {3 * TimeScale, 7500}

\* natural_time_minutes as calculate_effort_thresholds reports it for r
ReportedNaturalTime(r) ==
    SumNaturalTime(calculate_natural_pacing(
        SegmentsBasicData(r.elevation_profile, r.checkpoint_distances,
                          r.segment_terrain_types), Athlete(r)))
    + ThresholdCpTime(NumCheckpoints(r), r.avg_cp_time)

\* target-time requests whose target is the reported natural time, written
\* as HH:MM:SS
RoundTripInit ==
    /\ PaceIdle
    /\ EngineIdle
    /\ SideIdle
    /\ \E r \in BaseRequests, cp \in RoundTripCpTimes :
          /\ r.checkpoint_distances \in CheckpointLists(r.elevation_profile)
          /\ req = [r EXCEPT !.avg_cp_time = cp,
                             !.pacing_mode = "target_time",
                             !.target_time =
                                 TimeString(ReportedNaturalTime(
                                     [r EXCEPT !.avg_cp_time = cp]))]
    /\ pc = "segments"
    /\ segments_basic_data = <<>>
    /\ natural_results = <<>>
    /\ reverse_results = NoResult
    /\ segments = <<>>
    /\ search = SearchIdle
    /\ effort_thresholds = NoResult
    /\ response = NoResult

SpecRoundTrip == RoundTripInit /\ [][Next]_vars

\* the dwell of the request: num_checkpoints x avg_cp_time
Dwell == Len(req.checkpoint_distances) * req.avg_cp_time

-----------------------------------------------------------------------------
(* The geometry reducer on its own, one loop iteration per step *)

GeoSpacings == {0, 2}               \* km between consecutive profile points
GeoElevations == {0, 100, 400}      \* metres
GeoCheckpointDistances == {1, 2, 3, 7}

\* profiles of 1 to MaxPoints + 1 points starting at distance 0
GeoProfiles ==
    UNION {{[k \in 1..(n + 1) |->
                [distance |-> CumulativeDistances(legs)[k], elevation |-> ev[k]]] :
               legs \in [1..n -> GeoSpacings], ev \in [1..(n + 1) -> GeoElevations]} :
           n \in 0..MaxPoints}

\* requested checkpoint lists of up to MaxCheckpoints + 1 distances, in any
\* order
GeoCheckpointLists ==
    UNION {[1..n -> GeoCheckpointDistances] : n \in 0..(MaxCheckpoints + 1)}

\* distances = [point['distance'] for point in elevation_profile]
ProfileDistances(elevation_profile) ==
    [i \in 1..Len(elevation_profile) |-> elevation_profile[i].distance]

\* the entry with the cumulative distance of its end checkpoint as its
\* distance
SegmentToCheckpoint(elevation_profile, start_idx, end_idx, terrain_type) ==
    [distance |-> elevation_profile[end_idx].distance,
     elev_gain |-> calculate_elevation_change(elevation_profile, start_idx, end_idx)[1],
     elev_loss |-> calculate_elevation_change(elevation_profile, start_idx, end_idx)[2],
     terrain_type |-> terrain_type]

\* the entry of segments_basic_data between two checkpoint indices
SegmentBetween(elevation_profile, start_idx, end_idx, terrain_type) ==
    [distance |-> elevation_profile[end_idx].distance
                  - elevation_profile[start_idx].distance,
     elev_gain |-> calculate_elevation_change(elevation_profile, start_idx, end_idx)[1],
     elev_loss |-> calculate_elevation_change(elevation_profile, start_idx, end_idx)[2],
     terrain_type |-> terrain_type]

\* checkpoint_indices = [0]
GeoInit ==
    /\ PaceIdle /\ CalcIdle /\ EngineIdle
    /\ PlansIdle /\ DropbagIdle /\ ProbeIdle /\ LoopIdle
    /\ \E elevation_profile \in GeoProfiles, checkpoint_distances \in GeoCheckpointLists :
          geo = [elevation_profile |-> elevation_profile,
                 checkpoint_distances |-> checkpoint_distances,
                 pc |-> "indices", checkpoint_indices |-> <<1>>,
                 segments_basic_data |-> <<>>]

\* one iteration of "for cp_dist in checkpoint_distances"
ResolveCheckpoint ==
    /\ geo.pc = "indices"
    /\ Len(geo.checkpoint_indices) <= Len(geo.checkpoint_distances)
    /\ geo' = [geo EXCEPT !.checkpoint_indices =
                   Append(@, ClosestIndex(ProfileDistances(geo.elevation_profile),
                              geo.checkpoint_distances[Len(geo.checkpoint_indices)]))]
    /\ UNCHANGED <<paceVars, calcVars, engineVars, planVars, dropbagVars, probeVars, loopVars>>

\* checkpoint_indices.append(len(elevation_profile) - 1) and return
AppendFinish ==
    /\ geo.pc = "indices"
    /\ Len(geo.checkpoint_indices) = Len(geo.checkpoint_distances) + 1
    /\ geo' = [geo EXCEPT !.checkpoint_indices = Append(@, Len(geo.elevation_profile)),
                          !.pc = "segments"]
    /\ UNCHANGED <<paceVars, calcVars, engineVars, planVars, dropbagVars, probeVars, loopVars>>

\* one iteration of "for i in range(len(checkpoint_indices) - 1)"
BuildSegment ==
    /\ geo.pc = "segments"
    /\ Len(geo.segments_basic_data) < Len(geo.checkpoint_indices) - 1
    /\ geo' = [geo EXCEPT !.segments_basic_data =
                   Append(@, SegmentBetween(geo.elevation_profile,
                                 geo.checkpoint_indices[Len(geo.segments_basic_data) + 1],
                                 geo.checkpoint_indices[Len(geo.segments_basic_data) + 2],
                                 "smooth_trail"))]
    /\ UNCHANGED <<paceVars, calcVars, engineVars, planVars, dropbagVars, probeVars, loopVars>>

\* the loop is exhausted
SegmentsBuilt ==
    /\ geo.pc = "segments"
    /\ Len(geo.segments_basic_data) = Len(geo.checkpoint_indices) - 1
    /\ geo' = [geo EXCEPT !.pc = "done"]
    /\ UNCHANGED <<paceVars, calcVars, engineVars, planVars, dropbagVars, probeVars, loopVars>>

GeoNext == ResolveCheckpoint \/ AppendFinish \/ BuildSegment \/ SegmentsBuilt

SpecGeometry == GeoInit /\ [][GeoNext]_vars

\* |distances[i] - cp_dist| for the profile and the k-th requested checkpoint
GeoGap(i, k) ==
    Abs(geo.elevation_profile[i].distance - geo.checkpoint_distances[k])

\* the leg lengths a track with the profile's distances has
GeoLegs ==
    [i \in 1..(Len(geo.elevation_profile) - 1) |->
        geo.elevation_profile[i + 1].distance - geo.elevation_profile[i].distance]

\* C24: for each requested checkpoint distance the index selected has
\* minimum absolute difference between its cumulative distance and the
\* request, and is the lowest such index; the index list begins with the
\* first profile index and ends with the last, and there are
\* len(checkpoint_distances) + 1 segments; find_checkpoint_indices selects
\* the same indices.
ClosestIndexResolution ==
    /\ geo.checkpoint_indices[1] = 1
    /\ \A k \in 1..Len(geo.checkpoint_distances) :
           k + 1 <= Len(geo.checkpoint_indices) =>
               /\ geo.checkpoint_indices[k + 1] \in 1..Len(geo.elevation_profile)
               /\ \A j \in 1..Len(geo.elevation_profile) :
                      /\ GeoGap(geo.checkpoint_indices[k + 1], k) <= GeoGap(j, k)
                      /\ j < geo.checkpoint_indices[k + 1] =>
                             GeoGap(geo.checkpoint_indices[k + 1], k) < GeoGap(j, k)
    /\ geo.pc # "indices" =>
           /\ Len(geo.checkpoint_indices) = Len(geo.checkpoint_distances) + 2
           /\ geo.checkpoint_indices[Len(geo.checkpoint_indices)]
                  = Len(geo.elevation_profile)
           /\ geo.checkpoint_indices =
                  find_checkpoint_indices(GeoLegs, geo.checkpoint_distances)
    /\ geo.pc = "done" =>
           Len(geo.segments_basic_data) = Len(geo.checkpoint_distances) + 1

\* a checkpoint as far from one profile point as from a later, different one
\* was resolved to the earlier of the two
ClosestIndexResolutionWitness ==
    /\ geo.pc = "done"
    /\ \E k \in 1..Len(geo.checkpoint_distances) :
           \E j \in 1..Len(geo.elevation_profile) :
               /\ j > geo.checkpoint_indices[k + 1]
               /\ GeoGap(j, k) = GeoGap(geo.checkpoint_indices[k + 1], k)
               /\ geo.elevation_profile[j].distance
                      # geo.elevation_profile[geo.checkpoint_indices[k + 1]].distance

\* the checkpoint indices segment i runs between
GeoStart(i) == geo.checkpoint_indices[i]
GeoEnd(i) == geo.checkpoint_indices[i + 1]

\* elevation[j + 1] - elevation[j] of the profile
GeoDelta(j) == geo.elevation_profile[j + 1].elevation - geo.elevation_profile[j].elevation

\* the positive and the negative consecutive deltas over range(start, end)
GeoClimbs(start_idx, end_idx) ==
    SumSeq([j \in 1..(end_idx - start_idx) |-> Max2(GeoDelta(start_idx + j - 1), 0)])

GeoDrops(start_idx, end_idx) ==
    SumSeq([j \in 1..(end_idx - start_idx) |-> Max2(-GeoDelta(start_idx + j - 1), 0)])

\* elevation[end] - elevation[start]
GeoNetClimb(start_idx, end_idx) ==
    geo.elevation_profile[end_idx].elevation - geo.elevation_profile[start_idx].elevation

\* C25: for start_idx <= end_idx calculate_elevation_change returns gain =
\* the sum of the positive consecutive elevation deltas and loss = the sum of
\* the absolute values of the negative ones over the index range, both >= 0,
\* with gain - loss = elevation[end_idx] - elevation[start_idx] and gain at
\* least the net climb.
ElevationAccumulation ==
    \A i \in 1..Len(geo.segments_basic_data) :
        GeoStart(i) <= GeoEnd(i) =>
            /\ geo.segments_basic_data[i].elev_gain = GeoClimbs(GeoStart(i), GeoEnd(i))
            /\ geo.segments_basic_data[i].elev_loss = GeoDrops(GeoStart(i), GeoEnd(i))
            /\ geo.segments_basic_data[i].elev_gain >= 0
            /\ geo.segments_basic_data[i].elev_loss >= 0
            /\ geo.segments_basic_data[i].elev_gain - geo.segments_basic_data[i].elev_loss
                   = GeoNetClimb(GeoStart(i), GeoEnd(i))
            /\ geo.segments_basic_data[i].elev_gain >= GeoNetClimb(GeoStart(i), GeoEnd(i))

\* a segment that climbs and drops between its ends: the gain exceeds the
\* net climb and the loss is not 0
ElevationAccumulationWitness ==
    \E i \in 1..Len(geo.segments_basic_data) :
        /\ GeoEnd(i) >= GeoStart(i) + 2
        /\ geo.segments_basic_data[i].elev_gain > GeoNetClimb(GeoStart(i), GeoEnd(i))
        /\ GeoNetClimb(GeoStart(i), GeoEnd(i)) > 0
        /\ geo.segments_basic_data[i].elev_loss > 0

\* the requested distances and the profile's distances are non-decreasing
GeoOrdered ==
    /\ \A k \in 1..(Len(geo.checkpoint_distances) - 1) :
           geo.checkpoint_distances[k] <= geo.checkpoint_distances[k + 1]
    /\ \A j \in 1..(Len(geo.elevation_profile) - 1) :
           geo.elevation_profile[j].distance <= geo.elevation_profile[j + 1].distance

\* C28: when the requested checkpoint distances and the profile's cumulative
\* distances are non-decreasing, the resolved checkpoint indices are
\* non-decreasing, every segment has distance >= 0, and the segment
\* distances, gains and losses sum to the total distance, total gain and
\* total loss of the whole route.
SegmentConservation ==
    GeoOrdered =>
        /\ \A k \in 1..(Len(geo.checkpoint_indices) - 1) :
               geo.checkpoint_indices[k] <= geo.checkpoint_indices[k + 1]
        /\ \A i \in 1..Len(geo.segments_basic_data) :
               geo.segments_basic_data[i].distance >= 0
        /\ geo.pc = "done" =>
               /\ SumSeq([i \in 1..Len(geo.segments_basic_data) |->
                             geo.segments_basic_data[i].distance])
                      = geo.elevation_profile[Len(geo.elevation_profile)].distance
               /\ SumSeq([i \in 1..Len(geo.segments_basic_data) |->
                             geo.segments_basic_data[i].elev_gain])
                      = GeoClimbs(1, Len(geo.elevation_profile))
               /\ SumSeq([i \in 1..Len(geo.segments_basic_data) |->
                             geo.segments_basic_data[i].elev_loss])
                      = GeoDrops(1, Len(geo.elevation_profile))

\* a route cut by two different checkpoints resolved inside it, with climb
\* before them and descent after
SegmentConservationWitness ==
    /\ geo.pc = "done"
    /\ GeoOrdered
    /\ Len(geo.segments_basic_data) = 3
    /\ geo.checkpoint_distances[1] < geo.checkpoint_distances[2]
    /\ geo.segments_basic_data[1].distance > 0
    /\ geo.segments_basic_data[3].distance > 0
    /\ geo.segments_basic_data[1].elev_gain > 0
    /\ geo.segments_basic_data[3].elev_loss > 0

-----------------------------------------------------------------------------
(* The plan store: /api/save-plan, /api/auth/migrate-local-plan and
   /api/auth/claim-unowned-plan against the user_plans table and the plan
   files, each handler one step *)

MaxPlans == 2                   \* rows the table may hold

None == "None"
UserIds == {"user-123", "user-456"}
AnonymousIds == {"anon_12345"}
PlanNames == {"plan_a", "plan_b"}
PlanData == {1, 2}

\* the return value None of get_user_id_from_request
NoUser == [type |-> "none", id |-> None]

\* get_user_id_from_request: an authenticated user, an anonymous id or None
UserInfos ==
    {[type |-> "authenticated", id |-> u] : u \in UserIds}
    \cup {[type |-> "anonymous", id |-> a] : a \in AnonymousIds}
    \cup {NoUser}

\* ids of the rows selected by .eq(column, value).eq('plan_name', plan_name)
RowsOf(column, value, plan_name) ==
    {id \in 1..Len(user_plans) :
        user_plans[id][column] = value /\ user_plans[id].plan_name = plan_name}

\* the lowest id of a non-empty selection: existing.data[0]
FirstRow(ids) == CHOOSE id \in ids : \A other \in ids : id <= other

\* the name of the file that holds plan_name, and the files without it
FileOf(plan_name) == {f \in saved_plans : f.plan_name = plan_name}

WriteFile(plan_name, plan_data) ==
    (saved_plans \ FileOf(plan_name))
    \cup {[plan_name |-> plan_name, plan_data |-> plan_data]}

\* save_plan with a user: update the user's plan of that name or insert
\* {'owner_id': owner_id, 'anonymous_id': anonymous_id, ...}
SaveToTable(user_info, plan_name, force_save_as, save_data) ==
    LET owner_id == IF user_info.type = "authenticated" THEN user_info.id ELSE None
        anonymous_id == IF user_info.type = "anonymous" THEN user_info.id ELSE None
        existing == IF owner_id # None
                    THEN RowsOf("owner_id", owner_id, plan_name)
                    ELSE RowsOf("anonymous_id", anonymous_id, plan_name)
    IN  IF force_save_as /\ existing # {}
        THEN UNCHANGED user_plans
        ELSE IF existing # {}
        THEN user_plans' = [user_plans EXCEPT ![FirstRow(existing)].plan_data = save_data]
        ELSE /\ Len(user_plans) < MaxPlans
             /\ user_plans' = Append(user_plans,
                                  [owner_id |-> owner_id, anonymous_id |-> anonymous_id,
                                   plan_name |-> plan_name, plan_data |-> save_data])

\* save_plan: the table for a request that identifies a user, the plan files
\* otherwise
SavePlan ==
    \E user_info \in UserInfos, plan_name \in PlanNames, force_save_as \in BOOLEAN,
       save_data \in PlanData :
        /\ IF user_info # NoUser
           THEN /\ SaveToTable(user_info, plan_name, force_save_as, save_data)
                /\ UNCHANGED saved_plans
           ELSE /\ saved_plans' = IF force_save_as /\ FileOf(plan_name) # {}
                                  THEN saved_plans
                                  ELSE WriteFile(plan_name, save_data)
                /\ UNCHANGED user_plans
        /\ UNCHANGED <<paceVars, calcVars, engineVars, geoVars, dropbagVars, probeVars, loopVars>>

\* migrate_local_plan: the file's plan goes to the authenticated user's rows
\* and the file is removed
MigrateLocalPlan ==
    \E user_id \in UserIds, f \in saved_plans :
        /\ IF RowsOf("owner_id", user_id, f.plan_name) # {}
           THEN user_plans' =
                    [id \in 1..Len(user_plans) |->
                        IF id \in RowsOf("owner_id", user_id, f.plan_name)
                        THEN [user_plans[id] EXCEPT !.plan_data = f.plan_data]
                        ELSE user_plans[id]]
           ELSE /\ Len(user_plans) < MaxPlans
                /\ user_plans' = Append(user_plans,
                                     [owner_id |-> user_id, anonymous_id |-> None,
                                      plan_name |-> f.plan_name, plan_data |-> f.plan_data])
        /\ saved_plans' = saved_plans \ {f}
        /\ UNCHANGED <<paceVars, calcVars, engineVars, geoVars, dropbagVars, probeVars, loopVars>>

\* claim_unowned_plan: the row must have owner_id null and anonymous_id not
\* null, and the user no plan of that name; then update({'owner_id': user_id})
ClaimUnownedPlan ==
    \E user_id \in UserIds, plan_id \in 1..Len(user_plans) :
        /\ user_plans[plan_id].owner_id = None
        /\ user_plans[plan_id].anonymous_id # None
        /\ RowsOf("owner_id", user_id, user_plans[plan_id].plan_name) = {}
        /\ user_plans' = [user_plans EXCEPT ![plan_id].owner_id = user_id]
        /\ UNCHANGED saved_plans
        /\ UNCHANGED <<paceVars, calcVars, engineVars, geoVars, dropbagVars, probeVars, loopVars>>

PlansInit ==
    /\ PaceIdle /\ CalcIdle /\ EngineIdle
    /\ GeoIdle /\ DropbagIdle /\ ProbeIdle /\ LoopIdle
    /\ user_plans = <<>>
    /\ saved_plans = {}

PlansNext == SavePlan \/ MigrateLocalPlan \/ ClaimUnownedPlan

SpecPlans == PlansInit /\ [][PlansNext]_vars

\* C26: after any sequence of save_plan, migrate_local_plan and
\* claim_unowned_plan no stored plan record has both owner_id and
\* anonymous_id set.
PlanOwnershipExclusive ==
    \A id \in 1..Len(user_plans) :
        ~(user_plans[id].owner_id # None /\ user_plans[id].anonymous_id # None)

(***************************************************************************)
(* calculate_dropbag_contents, one loop iteration per step                 *)
(***************************************************************************)

\* target_water is kept in tenths of a litre (round(x * 10) / 10)
WaterScale == 10

\* Python's round(a / b) for a >= 0, b > 0: halves go to the even neighbour
PyRoundDiv(a, b) ==
    IF 2 * (a % b) < b THEN a \div b
    ELSE IF 2 * (a % b) > b THEN (a \div b) + 1
    ELSE (a \div b) + ((a \div b) % 2)

\* segments as calculate() builds them: carbs a multiple of 10 grams
DropbagSegments ==
    {[target_carbs |-> 20, target_water |-> 2],
     [target_carbs |-> 60, target_water |-> 5]}

DropbagSegmentLists ==
    UNION {[1..n -> DropbagSegments] : n \in 1..(MaxCheckpoints + 2)}

DropbagFlagLists ==
    UNION {[1..n -> BOOLEAN] : n \in 0..(MaxCheckpoints + 1)}

\* carbs_per_gel: 0 stands for None and for 0, which the code treats alike
GelSizes == {0, 25}

\* one returned entry, with the gel fields when carbs_per_gel is given
DropbagItem(checkpoint, carbs, hydration, carbs_per_gel) ==
    IF carbs_per_gel > 0
    THEN [checkpoint |-> checkpoint, carbs |-> carbs, hydration |-> hydration,
          num_gels |-> PyRoundDiv(carbs, carbs_per_gel),
          actual_carbs |-> PyRoundDiv(carbs, carbs_per_gel) * carbs_per_gel]
    ELSE [checkpoint |-> checkpoint, carbs |-> carbs, hydration |-> hydration]

\* the dropbag checkpoints (0-based) at or before checkpoint_idx
DropbagsUpTo(dropbag_accumulation, checkpoint_idx) ==
    {i \in DOMAIN dropbag_accumulation : i <= checkpoint_idx}

Largest(S) == CHOOSE i \in S : \A j \in S : j <= i

\* the keys of a set of indices in increasing order
RECURSIVE Sorted(_)
Sorted(S) ==
    IF S = {} THEN <<>>
    ELSE Sorted(S \ {Largest(S)}) \o <<Largest(S)>>

DropbagInit ==
    /\ PaceIdle /\ CalcIdle /\ EngineIdle
    /\ GeoIdle /\ PlansIdle /\ ProbeIdle /\ LoopIdle
    /\ \E segs \in DropbagSegmentLists, checkpoint_dropbags \in DropbagFlagLists,
          carbs_per_gel \in GelSizes :
        dropbag = [segments |-> segs,
                   checkpoint_dropbags |-> checkpoint_dropbags,
                   carbs_per_gel |-> carbs_per_gel,
                   pc |-> "start",
                   seg_idx |-> 0,
                   dropbag_accumulation |-> <<>>,
                   dropbag_contents |-> <<>>]

\* the 'Start' entry; without checkpoint_dropbags only Start is returned
PackStart ==
    /\ dropbag # NoResult
    /\ dropbag.pc = "start"
    /\ dropbag' =
         [dropbag EXCEPT
            !.dropbag_contents =
                <<DropbagItem("Start", dropbag.segments[1].target_carbs,
                              dropbag.segments[1].target_water,
                              dropbag.carbs_per_gel)>>,
            !.pc = IF dropbag.checkpoint_dropbags = <<>> THEN "done" ELSE "init"]
    /\ UNCHANGED <<paceVars, calcVars, engineVars, geoVars, planVars, probeVars, loopVars>>

\* an empty accumulator per checkpoint with a dropbag; none: only Start
InitAccumulation ==
    /\ dropbag # NoResult
    /\ dropbag.pc = "init"
    /\ dropbag' =
         [dropbag EXCEPT
            !.dropbag_accumulation =
                [i \in {j - 1 : j \in {k \in DOMAIN dropbag.checkpoint_dropbags :
                                          dropbag.checkpoint_dropbags[k]}}
                    |-> [carbs |-> 0, hydration |-> 0]],
            !.pc = IF \E k \in DOMAIN dropbag.checkpoint_dropbags :
                          dropbag.checkpoint_dropbags[k]
                   THEN "accumulate" ELSE "done"]
    /\ UNCHANGED <<paceVars, calcVars, engineVars, geoVars, planVars, probeVars, loopVars>>

\* the accumulator after segment seg_idx (0-based): segment 0 is skipped,
\* a later one goes to the last dropbag checkpoint at or before
\* checkpoint seg_idx - 1, and nowhere when there is none
Accumulated(dropbag_accumulation, segment, seg_idx) ==
    IF seg_idx = 0 \/ DropbagsUpTo(dropbag_accumulation, seg_idx - 1) = {}
    THEN dropbag_accumulation
    ELSE [dropbag_accumulation EXCEPT
            ![Largest(DropbagsUpTo(dropbag_accumulation, seg_idx - 1))] =
                [carbs |-> @.carbs + segment.target_carbs,
                 hydration |-> @.hydration + segment.target_water]]

AccumulateSegment ==
    /\ dropbag # NoResult
    /\ dropbag.pc = "accumulate"
    /\ dropbag.seg_idx < Len(dropbag.segments)
    /\ dropbag' =
         [dropbag EXCEPT
            !.dropbag_accumulation =
                Accumulated(dropbag.dropbag_accumulation,
                            dropbag.segments[dropbag.seg_idx + 1],
                            dropbag.seg_idx),
            !.seg_idx = @ + 1]
    /\ UNCHANGED <<paceVars, calcVars, engineVars, geoVars, planVars, probeVars, loopVars>>

\* one entry per dropbag checkpoint, in checkpoint order
ConvertOutput ==
    /\ dropbag # NoResult
    /\ dropbag.pc = "accumulate"
    /\ dropbag.seg_idx = Len(dropbag.segments)
    /\ dropbag' =
         [dropbag EXCEPT
            !.dropbag_contents =
                @ \o [n \in 1..Cardinality(DOMAIN dropbag.dropbag_accumulation) |->
                        DropbagItem(
                          "CP" \o ToString(Sorted(DOMAIN dropbag.dropbag_accumulation)[n] + 1),
                          dropbag.dropbag_accumulation[
                              Sorted(DOMAIN dropbag.dropbag_accumulation)[n]].carbs,
                          dropbag.dropbag_accumulation[
                              Sorted(DOMAIN dropbag.dropbag_accumulation)[n]].hydration,
                          dropbag.carbs_per_gel)],
            !.pc = "done"]
    /\ UNCHANGED <<paceVars, calcVars, engineVars, geoVars, planVars, probeVars, loopVars>>

DropbagNext == PackStart \/ InitAccumulation \/ AccumulateSegment \/ ConvertOutput

SpecDropbag == DropbagInit /\ [][DropbagNext]_vars

\* C29: when at least one checkpoint has a dropbag, the carbs of the
\* returned entries sum to the target carbs of all the segments.
DropbagConservation ==
    (/\ dropbag # NoResult
     /\ dropbag.pc = "done"
     /\ \E k \in DOMAIN dropbag.checkpoint_dropbags : dropbag.checkpoint_dropbags[k])
    => SumSeq([n \in DOMAIN dropbag.dropbag_contents |->
                  dropbag.dropbag_contents[n].carbs])
       = SumSeq([n \in DOMAIN dropbag.segments |-> dropbag.segments[n].target_carbs])

(***************************************************************************)
(* The threshold simulations probed over their search ranges               *)
(***************************************************************************)

\* the search ranges are probed at MaxProbes + 1 evenly spaced targets
MaxProbes == 8

\* the k-th probed target: 0.5 x natural .. natural for the push search,
\* natural .. 1.5 x natural for the protect search
ProbeTarget(natural_total_time, faster, k) ==
    IF faster
    THEN MulDiv(natural_total_time, MaxProbes + k, 2 * MaxProbes)
    ELSE MulDiv(natural_total_time, 2 * MaxProbes + k, 2 * MaxProbes)

\* a fraction <<count, total>> is at most another
FractionLeq(x, y) == x[1] * y[2] <= y[1] * x[2]

\* the simulation of the search that is running
ProbeFraction(p, faster, k) ==
    IF faster
    THEN simulate_push_segments(
             ProbeTarget(SumNaturalTime(p.natural_results), TRUE, k),
             p.segments_data, p.natural_results, p.athlete)
    ELSE simulate_protect_segments(
             ProbeTarget(SumNaturalTime(p.natural_results), FALSE, k),
             p.segments_data, p.natural_results, p.athlete)

ProbeInit ==
    /\ PaceIdle /\ CalcIdle /\ EngineIdle
    /\ GeoIdle /\ PlansIdle /\ DropbagIdle /\ LoopIdle
    /\ \E segments_data \in SegmentLists, athlete \in EngineAthletes :
          probe = [segments_data |-> segments_data,
                   athlete |-> athlete,
                   natural_results |-> calculate_natural_pacing(segments_data, athlete),
                   stage |-> "push",
                   k |-> -1,
                   previous |-> <<0, 1>>,
                   pct_at_threshold |-> <<0, 1>>]

\* simulate_push_segments at the next target of [0.5 x natural, natural]
ProbePush ==
    /\ probe # NoResult
    /\ probe.stage = "push"
    /\ probe.k < MaxProbes
    /\ probe' = [probe EXCEPT
                    !.k = @ + 1,
                    !.previous = probe.pct_at_threshold,
                    !.pct_at_threshold = ProbeFraction(probe, TRUE, probe.k + 1)]
    /\ UNCHANGED <<paceVars, calcVars, engineVars, geoVars, planVars, dropbagVars, loopVars>>

\* the push range is done: the protect range starts at natural
StartProtect ==
    /\ probe # NoResult
    /\ probe.stage = "push"
    /\ probe.k = MaxProbes
    /\ probe' = [probe EXCEPT
                    !.stage = "protect",
                    !.k = -1,
                    !.previous = <<0, 1>>,
                    !.pct_at_threshold = <<0, 1>>]
    /\ UNCHANGED <<paceVars, calcVars, engineVars, geoVars, planVars, dropbagVars, loopVars>>

\* simulate_protect_segments at the next target of [natural, 1.5 x natural]
ProbeProtect ==
    /\ probe # NoResult
    /\ probe.stage = "protect"
    /\ probe.k < MaxProbes
    /\ probe' = [probe EXCEPT
                    !.k = @ + 1,
                    !.previous = probe.pct_at_threshold,
                    !.pct_at_threshold = ProbeFraction(probe, FALSE, probe.k + 1)]
    /\ UNCHANGED <<paceVars, calcVars, engineVars, geoVars, planVars, dropbagVars, loopVars>>

ProbeNext == ProbePush \/ StartProtect \/ ProbeProtect

SpecProbe == ProbeInit /\ [][ProbeNext]_vars

\* C27: for a fixed course and athlete the fraction of simulate_push_segments
\* never rises as the probed target grows from 0.5 x natural to natural, and
\* the fraction of simulate_protect_segments never falls as the target grows
\* from natural to 1.5 x natural.
ProbeMonotone ==
    (probe # NoResult /\ probe.k >= 1) =>
        IF probe.stage = "push"
        THEN FractionLeq(probe.pct_at_threshold, probe.previous)
        ELSE FractionLeq(probe.previous, probe.pct_at_threshold)

\* a course of several segments where the push fraction has just dropped
\* strictly between two targets, to a fraction that is still above zero
ProbeMonotoneWitness ==
    /\ probe # NoResult
    /\ probe.stage = "push"
    /\ probe.k >= 1
    /\ Len(probe.segments_data) >= 2
    /\ ~FractionLeq(probe.previous, probe.pct_at_threshold)
    /\ probe.pct_at_threshold[1] > 0

(***************************************************************************)
(* calculate() in base pace mode: the segment loop, one iteration per step *)
(***************************************************************************)

\* the two ways a request is not in target time mode
BasePaceModes == {<<"base_pace", <<>>>>, <<"target_time", EmptyString>>}

LoopRequests ==
    {[pacing_mode |-> m[1], target_time |-> m[2], avg_cp_time |-> cp,
      z2_pace |-> athlete.base_pace, climbing_ability |-> athlete.climbing_ability,
      fatigue_enabled |-> athlete.fatigue_enabled,
      fitness_level |-> athlete.fitness_level, skill_level |-> athlete.skill_level] :
        m \in BasePaceModes, cp \in CpTimes, athlete \in EngineAthletes}

\* the forward pace of a segment entered with the effort of the segments
\* after it included
BasePaceAfter(r, seg_basic, cumulative_effort) ==
    adjust_pace_for_elevation(r.z2_pace, seg_basic.elev_gain, seg_basic.elev_loss,
                              seg_basic.distance,
                              cumulative_effort + SegmentEffort(seg_basic),
                              r.climbing_ability, r.fatigue_enabled, r.fitness_level,
                              seg_basic.terrain_type, r.skill_level)

\* "Base Pace Mode: Use forward-calculated pace (prediction)"
BasePaceAt(r, seg_basic, cumulative_effort) ==
    adjust_pace_for_elevation(r.z2_pace, seg_basic.elev_gain, seg_basic.elev_loss,
                              seg_basic.distance, cumulative_effort,
                              r.climbing_ability, r.fatigue_enabled, r.fitness_level,
                              seg_basic.terrain_type, r.skill_level)

\* the locals after the iteration for seg_basic, of index i from 1
LoopAppend(l, i, seg_basic, forward, segment_time) ==
    [l EXCEPT
        !.locals = Append(@, [adjusted_pace |-> forward.final_pace,
                              segment_time |-> segment_time,
                              pace_aggressive |-> FALSE,
                              effort_level |-> "steady"]),
        !.cumulative_effort = @ + SegmentEffort(seg_basic),
        !.cumulative_time = @ + (IF i > 1 THEN l.req.avg_cp_time ELSE 0) + segment_time,
        !.total_moving_time = @ + segment_time,
        !.segments =
            Append(@, OutputSegment(l.req, seg_basic, NoResult, forward,
                       l.cumulative_effort + SegmentEffort(seg_basic), segment_time,
                       l.cumulative_time + (IF i > 1 THEN l.req.avg_cp_time ELSE 0)
                           + segment_time))]

\* segment_time = segment_dist * adjusted_pace
LoopTime(l, i, seg_basic, forward) ==
    LoopAppend(l, i, seg_basic, forward, seg_basic.distance * forward.final_pace)

LoopInit ==
    /\ PaceIdle /\ CalcIdle /\ EngineIdle
    /\ GeoIdle /\ PlansIdle /\ DropbagIdle /\ ProbeIdle
    /\ \E r \in LoopRequests, basic \in SegmentLists :
          loop = [req |-> r,
                  segments_basic_data |-> basic,
                  pc |-> "loop",
                  segments |-> <<>>,
                  locals |-> <<>>,
                  cumulative_time |-> 0,
                  total_moving_time |-> 0,
                  cumulative_effort |-> 0]

\* one iteration of "for i in range(len(segments_basic_data))"
LoopIteration ==
    /\ loop # NoResult
    /\ loop.pc = "loop"
    /\ ~UseTargetTime(loop.req)
    /\ Len(loop.segments) < Len(loop.segments_basic_data)
    /\ loop' = LoopTime(loop, Len(loop.segments) + 1,
                   loop.segments_basic_data[Len(loop.segments) + 1],
                   BasePaceAt(loop.req,
                              loop.segments_basic_data[Len(loop.segments) + 1],
                              loop.cumulative_effort))
    /\ UNCHANGED <<paceVars, calcVars, engineVars, geoVars, planVars, dropbagVars, probeVars>>

\* the loop has run over every segment
LoopExit ==
    /\ loop # NoResult
    /\ loop.pc = "loop"
    /\ Len(loop.segments) = Len(loop.segments_basic_data)
    /\ loop' = [loop EXCEPT !.pc = "done"]
    /\ UNCHANGED <<paceVars, calcVars, engineVars, geoVars, planVars, dropbagVars, probeVars>>

LoopNext == LoopIteration \/ LoopExit

SpecBasePace == LoopInit /\ [][LoopNext]_vars

\* what calculate_natural_pacing returns for the course and athlete of the loop
LoopNatural == calculate_natural_pacing(loop.segments_basic_data, Athlete(loop.req))

\* C30: in base pace mode the pace and time calculate() computes for every
\* segment are the natural_pace and natural_time calculate_natural_pacing
\* returns for the same course and athlete, and every segment is 'steady'.
BasePaceEqualsNatural ==
    loop # NoResult =>
        \A i \in 1..Len(loop.locals) :
            /\ loop.locals[i].adjusted_pace = LoopNatural[i].natural_pace
            /\ loop.locals[i].segment_time = LoopNatural[i].natural_time
            /\ loop.locals[i].effort_level = "steady"
            /\ loop.segments[i].effort_level = "steady"
            /\ loop.segments[i].pace = Round2(LoopNatural[i].natural_pace)
            /\ loop.segments[i].segment_time = Round2(LoopNatural[i].natural_time)

\* a finished loop over several segments whose last pace depends on the
\* effort of the segments before it
BasePaceEqualsNaturalWitness ==
    /\ loop # NoResult
    /\ loop.pc = "done"
    /\ Len(loop.locals) >= 2
    /\ loop.req.fatigue_enabled
    /\ loop.locals[Len(loop.locals)].adjusted_pace
         # BasePaceAt(loop.req, loop.segments_basic_data[Len(loop.locals)], 0).final_pace
    /\ loop.locals[Len(loop.locals)].segment_time > 0

=============================================================================
